---------------------------- MODULE Spec2Model ----------------------------
(***************************************************************************)
(* Live-preview rendering of inline fields and inline queries             *)
(* (obsidian-dataview, src/ui/lp-render.ts and its earlier revisions).    *)
(*                                                                         *)
(* The view plugin keeps a decoration store (a CodeMirror RangeSet) and   *)
(* reconciles it on every editor update.  The model keeps the document as *)
(* a sequence of characters, derives the syntax nodes and the inline      *)
(* fields from it, and runs the plugin's handlers on it.                   *)
(*                                                                         *)
(* Characters are one-character strings.  The backtick cannot be written  *)
(* in a TLA+ string, so BT (an apostrophe) stands for it.  Offsets are    *)
(* 0-based as in the editor: offset i is between d[i] and d[i+1].         *)
(*                                                                         *)
(* Four revisions of the plugin are in the source:                         *)
(*   "q"    src/ui/lp-render.ts 144-368  inline queries only              *)
(*   "fw"   unnamed/part_001             fields as Replace widgets        *)
(*   "fm"   unnamed/part_000             fields as hide/mark ranges       *)
(*   "cur"  src/ui/lp-render.ts 503-851  source-mode marks, livepreview   *)
(* The variable rev says which one is loaded; it never changes.  "fm" is    *)
(* not modelled apart from "fw": its update and its passes are the same.   *)
(*                                                                         *)
(* Ten specifications run the handlers:                                    *)
(*   Spec         the current revision, on a document that is edited      *)
(*   SpecEarlier  revisions "q" and "fw", with and without a ready index  *)
(*   SpecQueries  the current revision, on failing and deferred queries   *)
(*   SpecForms    the current revision, with each form switched on or off *)
(*   SpecScroll   the current revision, on two lines, with scrolling      *)
(*   SpecFields   the current revision, on inline fields of every kind    *)
(*   SpecPrefixes the current revision, with the prefixes configured      *)
(*   SpecEvents   the current revision, with mouse events on the widgets  *)
(*   SpecEdits    the current revision, on an edited document with a query*)
(*   SpecNoFile   the current revision, with and without an active file   *)
(***************************************************************************)
EXTENDS Integers, Sequences, FiniteSets, TLC

VARIABLES
    rev,          \* the revision of the plugin that is loaded
    doc,          \* view.state.doc: the document text
    selection,    \* view.state.selection.ranges
    visible,      \* view.visibleRanges
    lpField,      \* view.state.field(editorLivePreviewField)
    settings,     \* the DataviewSettings the plugin was created with
    initialized,  \* index.initialized
    activeFile,   \* app.workspace.getActiveFile() is non-null
    decorations,  \* this.decorations: the decoration store
    livepreview,  \* this.livepreview (revision "cur")
    els,          \* the widget elements: id -> display content
    pending,      \* deferred script computations not settled yet
    log,          \* the collaborator calls made by the last handler
    last,         \* what the last handler was given (update flags, change)
    edits         \* number of document changes so far

vars == <<rev, doc, selection, visible, lpField, settings, initialized,
          activeFile, decorations, livepreview, els, pending, log, last, edits>>

-----------------------------------------------------------------------------
(* Bounds of the model *)

MaxEdits == 1
MaxSelSpan == 0
MaxPending == 1

-----------------------------------------------------------------------------
(* Characters and strings *)

BT == "'"
NL == "\n"
SP == " "

Min(a, b) == IF a < b THEN a ELSE b
Max(a, b) == IF a > b THEN a ELSE b

Range(s) == {s[i] : i \in DOMAIN s}

\* String.prototype.startsWith
startsWith(s, p) == Len(s) >= Len(p) /\ SubSeq(s, 1, Len(p)) = p

\* String.prototype.substring(n)
substring(s, n) == SubSeq(s, Min(n, Len(s)) + 1, Len(s))

isSpace(c) == c \in {SP, NL}

RECURSIVE trimStart(_)
trimStart(s) ==
    IF s # <<>> /\ isSpace(Head(s)) THEN trimStart(Tail(s)) ELSE s

RECURSIVE trimEnd(_)
trimEnd(s) ==
    IF s # <<>> /\ isSpace(s[Len(s)]) THEN trimEnd(SubSeq(s, 1, Len(s) - 1)) ELSE s

\* String.prototype.trim
trim(s) == trimEnd(trimStart(s))

\* String.prototype.includes, for a one-character marker
includes(s, c) == c \in Range(s)

\* the text of a character sequence, as it appears inside a template string
RECURSIVE Str(_)
Str(s) == IF s = <<>> THEN "" ELSE Head(s) \o Str(Tail(s))

-----------------------------------------------------------------------------
(* The document (host: @codemirror/state Text) *)

\* Text.sliceString(from, to)
sliceString(d, from, to) == SubSeq(d, Max(from, 0) + 1, Min(to, Len(d)))

\* offsets of the line breaks of d, in order
RECURSIVE breaksFrom(_, _)
breaksFrom(d, i) ==
    IF i >= Len(d) THEN <<>>
    ELSE IF d[i + 1] = NL THEN <<i>> \o breaksFrom(d, i + 1)
    ELSE breaksFrom(d, i + 1)

lineBreaks(d) == breaksFrom(d, 0)

\* Text.line(n): the n-th line (1-based), without its line break
line(d, n) ==
    LET br == lineBreaks(d)
        from == IF n = 1 THEN 0 ELSE br[n - 1] + 1
        to == IF n <= Len(br) THEN br[n] ELSE Len(d)
    IN [number |-> n, from |-> from, to |-> to, text |-> sliceString(d, from, to)]

\* Text.lineAt(pos): the line around offset pos
lineAt(d, pos) ==
    LET br == lineBreaks(d)
    IN line(d, 1 + Cardinality({i \in DOMAIN br : br[i] < pos}))

-----------------------------------------------------------------------------
(* The syntax tree (host: syntaxTree(view.state), Obsidian's markdown      *)
(* stream parser).  A run of n backticks opens inline code, the next run   *)
(* of exactly n backticks closes it; the backtick runs are "formatting"    *)
(* tokens and the text between them is one "inline-code" token.  Tokens   *)
(* never contain a line break; inline code left open at the end of a line  *)
(* continues on the next line.                                             *)

\* length of the run of backticks that starts at offset i
RECURSIVE tickRun(_, _)
tickRun(d, i) ==
    IF i < Len(d) /\ d[i + 1] = BT THEN 1 + tickRun(d, i + 1) ELSE 0

\* end of the plain-text token that starts at offset i
RECURSIVE textEnd(_, _)
textEnd(d, i) ==
    IF i >= Len(d) \/ d[i + 1] \in {NL, BT} THEN i ELSE textEnd(d, i + 1)

\* end of the inline-code token that starts at offset i, opened by code backticks
RECURSIVE codeEnd(_, _, _)
codeEnd(d, i, code) ==
    IF i >= Len(d) \/ d[i + 1] = NL THEN i
    ELSE IF d[i + 1] = BT
         THEN IF tickRun(d, i) = code THEN i ELSE codeEnd(d, i + tickRun(d, i), code)
         ELSE codeEnd(d, i + 1, code)

TextProps == {}
CodeProps == {"inline-code"}
FormattingProps == {"formatting", "formatting-code", "inline-code"}

SyntaxNode(from, to, props) == [from |-> from, to |-> to, props |-> props]

RECURSIVE tokens(_, _, _)
tokens(d, i, code) ==
    IF i >= Len(d) THEN <<>>
    ELSE IF d[i + 1] = NL THEN tokens(d, i + 1, code)
    ELSE IF d[i + 1] = BT /\ (code = 0 \/ tickRun(d, i) = code)
         THEN <<SyntaxNode(i, i + tickRun(d, i), FormattingProps)>>
              \o tokens(d, i + tickRun(d, i), IF code = 0 THEN tickRun(d, i) ELSE 0)
    ELSE IF code > 0
         THEN <<SyntaxNode(i, codeEnd(d, i, code), CodeProps)>>
              \o tokens(d, codeEnd(d, i, code), code)
    ELSE <<SyntaxNode(i, textEnd(d, i), TextProps)>> \o tokens(d, textEnd(d, i), code)

\* the nodes of the tree in the order iterate() enters them: the top node
\* (the whole document), then the tokens
syntaxTree(d) == <<SyntaxNode(0, Len(d), TextProps)>> \o tokens(d, 0, 0)

\* Tree.iterate({from, to, enter}): the nodes that touch [from, to]
iterate(d, from, to) ==
    SelectSeq(syntaxTree(d), LAMBDA n : n.from <= to /\ n.to >= from)

-----------------------------------------------------------------------------
(* The field scanner (data-import/inline-field).  A bracket field is an     *)
(* opening "[" or "(", a key, "::", a value and the matching closing       *)
(* bracket, all on one line; a full-line field is "key:: value" filling    *)
(* the line.  start, startValue and end are offsets into the line.         *)

NoWrapping == "none"

Closing(open) == IF open = "[" THEN "]" ELSE ")"

\* String.prototype.indexOf(c, i), -1 when there is none
RECURSIVE indexOf(_, _, _)
indexOf(t, c, i) ==
    IF i >= Len(t) THEN -1
    ELSE IF t[i + 1] \in c THEN i ELSE indexOf(t, c, i + 1)

\* the first "::" at or after offset i, -1 when there is none
RECURSIVE indexOfSeparator(_, _)
indexOfSeparator(t, i) ==
    IF i + 1 >= Len(t) THEN -1
    ELSE IF t[i + 1] = ":" /\ t[i + 2] = ":" THEN i ELSE indexOfSeparator(t, i + 1)

InlineField(t, start, startValue, end, wrapping) ==
    [start |-> start, startValue |-> startValue, end |-> end,
     wrapping |-> wrapping,
     key |-> trim(SubSeq(t, start + (IF wrapping = NoWrapping THEN 1 ELSE 2),
                          startValue - 2)),
     value |-> trim(SubSeq(t, startValue + 1,
                            end - (IF wrapping = NoWrapping THEN 0 ELSE 1)))]

\* the bracket field that opens at offset start: <<field>>, or <<>>
findSpecificInlineField(t, start) ==
    LET sep == indexOfSeparator(t, start + 1)
        close == IF sep < 0 THEN -1 ELSE indexOf(t, {Closing(t[start + 1])}, sep + 2)
    IN IF sep < 0 \/ close < 0
          \/ \E k \in (start + 2)..sep : t[k] \in {"[", "]", "(", ")"}
       THEN <<>>
       ELSE <<InlineField(t, start, sep + 2, close + 1, t[start + 1])>>

RECURSIVE fieldsFrom(_, _)
fieldsFrom(t, i) ==
    LET start == indexOf(t, {"[", "("}, i)
        found == findSpecificInlineField(t, start)
    IN IF start < 0 THEN <<>>
       ELSE IF found = <<>> THEN fieldsFrom(t, start + 1)
       ELSE found \o fieldsFrom(t, found[1].end + 1)

\* extractInlineFields(line.text)
extractInlineFields(t) == fieldsFrom(t, 0)

\* extractFullLineField(line.text): <<field>>, or <<>>
extractFullLineField(t) ==
    LET sep == indexOfSeparator(t, 0)
    IN IF sep < 1 \/ \E k \in 1..sep : t[k] \in {"[", "]", "(", ")", BT}
       THEN <<>>
       ELSE <<InlineField(t, 0, sep + 2, Len(t), NoWrapping)>>

-----------------------------------------------------------------------------
(* Document changes (host: @codemirror/state ChangeSet).  A change         *)
(* replaces [from, to) by the text insert.                                 *)

ChangeSpec(from, to, insert) == [from |-> from, to |-> to, insert |-> insert]

\* the document after the change
applyChange(d, chg) ==
    SubSeq(d, 1, chg.from) \o chg.insert \o SubSeq(d, chg.to + 1, Len(d))

\* ChangeDesc.mapPos(pos, assoc)
mapPos(chg, pos, assoc) ==
    IF pos < chg.from THEN pos
    ELSE IF chg.to > pos \/ (chg.to = pos /\ assoc < 0 /\ chg.to = chg.from)
         THEN IF pos = chg.from \/ assoc < 0 THEN chg.from
              ELSE chg.from + Len(chg.insert)
    ELSE chg.from + Len(chg.insert) + (pos - chg.to)

-----------------------------------------------------------------------------
(* Decorations and the decoration store (host: @codemirror/view            *)
(* Decoration, @codemirror/state RangeSet).  The store is the sequence of  *)
(* its ranges, ordered by from and then by startSide.  A range set's       *)
(* between and filter look at the ranges that touch a region, its ends     *)
(* included.                                                               *)

NoWidget == [cssClasses |-> <<>>, sourceString |-> <<>>, el |-> 0]

\* Decoration.replace({widget, inclusive: false, block: false}).range(from, to)
ReplaceRange(from, to, widget) ==
    [from |-> from, to |-> to, kind |-> "replace", class |-> "",
     startSide |-> 2, endSide |-> -2, widget |-> widget]

\* Decoration.mark({tagName: 'span', inclusive, class}).range(from, to)
MarkRange(from, to, class, inclusive) ==
    [from |-> from, to |-> to, kind |-> "mark", class |-> class,
     startSide |-> IF inclusive THEN -1 ELSE 3,
     endSide |-> IF inclusive THEN 1 ELSE -3, widget |-> NoWidget]

\* cmpRange: the order of the ranges of a set
cmpRange(a, b) ==
    IF a.from # b.from THEN a.from - b.from ELSE a.startSide - b.startSide

\* RangeSet.between(from, to, f): the ranges f is called with, in order
between(set, from, to) ==
    SelectSeq(set, LAMBDA r : r.from <= to /\ r.to >= from)

\* RangeSet.update({filterFrom, filterTo, filter: () => false})
removeTouching(set, filterFrom, filterTo) ==
    SelectSeq(set, LAMBDA r : filterFrom > r.to \/ filterTo < r.from)

\* Array.prototype.sort(cmpRange), which is stable
RECURSIVE sortRanges(_)
sortRanges(rs) ==
    IF rs = <<>> THEN <<>>
    ELSE LET rest == sortRanges(Tail(rs))
             before == SelectSeq(rest, LAMBDA r : cmpRange(r, Head(rs)) < 0)
             after == SelectSeq(rest, LAMBDA r : cmpRange(r, Head(rs)) >= 0)
         IN before \o <<Head(rs)>> \o after

\* the merge of RangeSet.update: an added range goes before the ranges of
\* the set that do not sort before it
RECURSIVE mergeRanges(_, _)
mergeRanges(add, set) ==
    IF add = <<>> THEN set
    ELSE IF set = <<>> THEN add
    ELSE IF cmpRange(Head(set), Head(add)) >= 0
         THEN <<Head(add)>> \o mergeRanges(Tail(add), set)
         ELSE <<Head(set)>> \o mergeRanges(add, Tail(set))

\* an update that puts the added ranges behind the ranges of the set
addRangesAppended(set, add, sort) == set \o (IF sort THEN sortRanges(add) ELSE add)

\* RangeSet.update({add, sort})
addRanges(set, add, sort) == mergeRanges(IF sort THEN sortRanges(add) ELSE add, set)

\* Decoration.set(ranges, true)
DecorationSet(ranges) == sortRanges(ranges)

\* RangeSet.map(changes), for one range: <<range>>, or <<>> when it is dropped
mapRange(r, chg) ==
    LET newFrom == mapPos(chg, r.from, r.startSide)
        newTo == mapPos(chg, r.to, r.endSide)
        dropped ==
            IF r.from = r.to
            THEN (chg.from < r.from /\ chg.to > r.from) \/ newTo < newFrom
            ELSE newFrom > newTo
                 \/ (newFrom = newTo /\ r.startSide > 0 /\ r.endSide <= 0)
    IN IF dropped \/ (newTo = newFrom /\ r.endSide < r.startSide)
       THEN <<>>
       ELSE <<[r EXCEPT !.from = newFrom, !.to = newTo]>>

\* RangeSet.map(changes)
RECURSIVE mapSet(_, _)
mapSet(set, chg) ==
    IF set = <<>> THEN <<>>
    ELSE mapRange(Head(set), chg) \o mapSet(Tail(set), chg)

-----------------------------------------------------------------------------
(* The collaborators of widget construction.  What they answer is decided  *)
(* by the text they are given: "!" makes a text malformed (the expression  *)
(* parser fails on it, evaluating it as a script raises a SyntaxError),    *)
(* "?" makes its evaluation fail (the execution engine returns a failure,  *)
(* the script throws while it runs).  The empty text is no expression.     *)

Await == <<"a", "w", "a", "i", "t">>

\* String.prototype.includes, for a text
includesText(s, t) == \E i \in 0..(Len(s) - Len(t)) : SubSeq(s, i + 1, i + Len(t)) = t

\* tryOrPropogate(() => parseField(code))
parseField(code) ==
    IF code = <<>> \/ includes(code, "!")
    THEN [successful |-> FALSE, value |-> "", error |-> "Error: parse failure"]
    ELSE [successful |-> TRUE, value |-> "[object Object]", error |-> ""]

\* tryOrPropogate(() => executeInline(fieldValue, currentFile.path, index, settings))
executeInline(code) ==
    IF includes(code, "?")
    THEN [successful |-> FALSE, value |-> "", error |-> "Error: evaluation failure"]
    ELSE [successful |-> TRUE, value |-> "value of " \o Str(code), error |-> ""]

\* eval(script) raises a SyntaxError
evalSyntaxError(code) == includes(code, "!")

\* the script throws while it runs
evalThrows(code) == includes(code, "?")

\* what renderValue(result, el, ...) puts into the element
renderValue(result) == "<span>" \o result \o "</span>"

\* the text of the error a script throws while it runs
ThrownError == "Error: thrown by the script"

Call(fn, arg) == [call |-> fn, arg |-> arg]

-----------------------------------------------------------------------------
(* The plugin value.  A handler works on the record m of the instance's    *)
(* fields and of what it touches outside of it:                            *)
(*   decorations, livepreview   this.decorations, this.livepreview         *)
(*   els                        the elements created for widgets           *)
(*   pending                    the deferred script computations           *)
(*   log                        the collaborator calls made                *)
(* and reads the view v = [doc, selection, visibleRanges].                 *)

View(d, sel, vis) == [doc |-> d, selection |-> sel, visibleRanges |-> vis]

\* createSpan()/createDiv(): the id of a new element
newEl(m) == CHOOSE id \in 1..(Cardinality(DOMAIN m.els) + 1) : id \notin DOMAIN m.els

setContent(m, el, text) ==
    [m EXCEPT !.els = [id \in DOMAIN m.els \cup {el} |->
                          IF id = el THEN text ELSE m.els[id]]]

logCall(m, fn, arg) == [m EXCEPT !.log = Append(m.log, Call(fn, arg))]

\* lp-render.ts:416  the loop over selection.ranges, from the i-th range on
RECURSIVE rangesFrom(_, _, _, _)
rangesFrom(sel, i, rangeFrom, rangeTo) ==
    IF i > Len(sel) THEN FALSE
    ELSE IF sel[i].from <= rangeTo /\ sel[i].to >= rangeFrom THEN TRUE
    ELSE rangesFrom(sel, i + 1, rangeFrom, rangeTo)

\* an overlap test that takes touching ends for no overlap
selectionAndRangeOverlapStrict(sel, rangeFrom, rangeTo) ==
    \E i \in DOMAIN sel : sel[i].from < rangeTo /\ sel[i].to > rangeFrom

\* lp-render.ts:415  selectionAndRangeOverlap
selectionAndRangeOverlap(sel, rangeFrom, rangeTo) ==
    rangesFrom(sel, 1, rangeFrom, rangeTo)

\* lp-render.ts:483  getCssClasses
getCssClasses(props) ==
    LET classOf == [strong |-> "cm-strong", em |-> "cm-em",
                    highlight |-> "cm-highlight",
                    strikethrough |-> "cm-strikethrough", comment |-> "cm-comment"]
        has == SelectSeq(<<"strong", "em", "highlight", "strikethrough", "comment">>,
                         LAMBDA c : c \in props)
    IN [i \in DOMAIN has |-> classOf[has[i]]]

\* lp-render.ts:687  isInlineQuery
isInlineQuery(v, start, end) ==
    LET content == sliceString(v.doc, start, end)
    IN startsWith(content, settings.inlineQueryPrefix)
       \/ startsWith(content, settings.inlineJsQueryPrefix)

\* a classifier that tests the selection against the node, not the widened span
queryRenderInfoNarrow(v, node) ==
    LET isSelected == selectionAndRangeOverlap(v.selection, node.from, node.to)
        isQuery == "inline-code" \in node.props
                   /\ "formatting" \notin node.props
                   /\ isInlineQuery(v, node.from, node.to)
    IN [render |-> isQuery /\ ~isSelected, isQuery |-> isQuery]

\* lp-render.ts:671  queryRenderInfo
queryRenderInfo(v, node) ==
    LET isSelected == selectionAndRangeOverlap(v.selection, node.from - 1, node.to + 1)
        isQuery == "inline-code" \in node.props
                   /\ "formatting" \notin node.props
                   /\ isInlineQuery(v, node.from, node.to)
    IN [render |-> isQuery /\ ~isSelected, isQuery |-> isQuery]

\* new InlineWidget(cssClasses, sourceString, el, view)
InlineWidget(cssClasses, sourceString, el) ==
    [cssClasses |-> cssClasses, sourceString |-> sourceString, el |-> el]

\* lp-render.ts:437  InlineWidget.eq
eq(this, other) == other.sourceString = this.sourceString

Undefined == <<>>

MouseEvent(type, shiftKey) == [type |-> type, shiftKey |-> shiftKey]

\* lp-render.ts:464-480  InlineWidget.ignoreEvent.  currentPos is what
\* view.posAtCoords gave: <<>> for null, <<pos>> for a position; editor says
\* whether the editor info field holds an editor.  cursor is the offset given
\* to editor.setCursor, <<>> when setCursor is not called.
ignoreEvent(event, currentPos, editor) ==
    IF event.type = "mousedown" /\ event.shiftKey
    THEN [value |-> FALSE,
          cursor |-> IF currentPos # <<>> /\ currentPos[1] # 0 /\ editor
                     THEN currentPos ELSE <<>>]
    ELSE [value |-> TRUE, cursor |-> <<>>]

Returned(m, value) == [m |-> m, value |-> value]

\* the expression query with the engine run before the parse result is looked at
expressionQueryLeaky(m, el, code) ==
    LET field == parseField(code)
        intermediateResult == executeInline(code)
        m2 == logCall(logCall(m, "parseField", Str(code)), "executeInline", Str(code))
    IN IF ~field.successful \/ ~intermediateResult.successful
       THEN setContent(m2, el, "Dataview (inline field '" \o Str(code) \o "'): "
                                 \o field.error)
       ELSE setContent(logCall(m2, "renderValue", intermediateResult.value),
                       el, renderValue(intermediateResult.value))

\* lp-render.ts:786-805  createQueryWidget, the expression query
expressionQuery(m, el, code) ==
    LET field == parseField(code)
        m1 == logCall(m, "parseField", Str(code))
        intermediateResult == executeInline(code)
        m2 == logCall(m1, "executeInline", Str(code))
    IN IF ~field.successful
       THEN setContent(m1, el, "Dataview (inline field '" \o Str(code) \o "'): "
                                 \o field.error)
       ELSE IF ~intermediateResult.successful
       THEN setContent(m2, el, "Dataview (for inline query '" \o field.value \o "'): "
                                 \o intermediateResult.error)
       ELSE setContent(logCall(m2, "renderValue", intermediateResult.value),
                       el, renderValue(intermediateResult.value))

\* lp-render.ts:806-832  createQueryWidget, the script query
scriptQuery(m, el, code) ==
    LET m1 == logCall(m, "eval", Str(code))
        caught(e) == setContent(m1, el, "Dataview (for inline JS query '" \o Str(code)
                                          \o "'): " \o e)
    IN IF evalSyntaxError(code) THEN caught("SyntaxError: unexpected token")
       ELSE IF includesText(code, Await)
       THEN [m1 EXCEPT !.pending = @ \cup {[el |-> el, code |-> code]}]
       ELSE IF evalThrows(code) THEN caught(ThrownError)
       ELSE setContent(logCall(m1, "renderValue", "result of " \o Str(code)),
                       el, renderValue("result of " \o Str(code)))

\* a widget construction that does not look at the two feature flags
createQueryWidgetUngated(m, v, node) ==
    LET text == sliceString(v.doc, node.from, node.to)
        el == newEl(m)
        m0 == logCall(m, "createQueryWidget", Str(text))
        m1 == setContent(m0, el, "")
        isQuery == startsWith(text, settings.inlineQueryPrefix)
        isJsQuery == startsWith(text, settings.inlineJsQueryPrefix)
        code == IF isQuery
                THEN trim(substring(text, Len(settings.inlineQueryPrefix)))
                ELSE trim(substring(text, Len(settings.inlineJsQueryPrefix)))
        m2 == IF isQuery THEN expressionQuery(m1, el, code)
              ELSE scriptQuery(m1, el, code)
    IN IF sliceString(v.doc, node.to, node.to + 1) = <<NL>> THEN Returned(m0, Undefined)
       ELSE IF ~isQuery /\ ~isJsQuery THEN Returned(m0, Undefined)
       ELSE Returned(m2, <<ReplaceRange(node.from - 1, node.to + 1,
                              InlineWidget(getCssClasses(node.props), code, el))>>)

\* lp-render.ts:762  createQueryWidget
createQueryWidget(m, v, node) ==
    LET text == sliceString(v.doc, node.from, node.to)
        el == newEl(m)
        m0 == logCall(m, "createQueryWidget", Str(text))
        m1 == setContent(m0, el, "")
        isQuery == startsWith(text, settings.inlineQueryPrefix)
        isJsQuery == startsWith(text, settings.inlineJsQueryPrefix)
        disabled == (isQuery /\ ~settings.enableInlineDataview)
                    \/ (isJsQuery /\ ~settings.enableInlineDataviewJs)
        code == IF disabled THEN <<>>
                ELSE IF isQuery
                THEN trim(substring(text, Len(settings.inlineQueryPrefix)))
                ELSE trim(substring(text, Len(settings.inlineJsQueryPrefix)))
        m2 == IF disabled THEN setContent(m1, el, "(disabled; enable in settings)")
              ELSE IF isQuery THEN expressionQuery(m1, el, code)
              ELSE scriptQuery(m1, el, code)
    IN IF sliceString(v.doc, node.to, node.to + 1) = <<NL>> THEN Returned(m0, Undefined)
       ELSE IF ~isQuery /\ ~isJsQuery THEN Returned(m0, Undefined)
       ELSE Returned(m2, <<ReplaceRange(node.from - 1, node.to + 1,
                              InlineWidget(getCssClasses(node.props), code, el))>>)

-----------------------------------------------------------------------------
(* Inline fields *)

\* lp-render.ts:665  fieldRenderInfo (the earlier revisions: render: !isSelected)
fieldRenderInfo(m, v, ln, field) ==
    LET isSelected == selectionAndRangeOverlap(v.selection, ln.from + field.start,
                                               ln.from + field.end)
    IN [render |-> IF rev = "cur" THEN ~(m.livepreview /\ isSelected) ELSE ~isSelected]

\* a decorator that marks the key and the value whether or not they are empty
createFieldDecoratorSourceModeAll(v, ln, field) ==
    LET wrapped == field.wrapping # NoWrapping
        openBracketPos == ln.from + field.start
        keyPos == IF wrapped THEN ln.from + field.start + 1 ELSE openBracketPos
        colonPos == ln.from + field.startValue - 2
        valuePos == ln.from + field.startValue
        fieldEndPos == ln.from + field.end
        closeBracketPos == IF wrapped THEN ln.from + field.end - 1 ELSE fieldEndPos
        inline_or_fullline == IF wrapped THEN "inline" ELSE "fullline"
        isRounded == field.wrapping = "("
        markBracket(from, to) ==
            MarkRange(from, to, "dataview source-mode-inline-field-bracket", FALSE)
        markColon(from, to) ==
            MarkRange(from, to, "dataview source-mode-" \o inline_or_fullline
                                \o "-field-colon", FALSE)
        markKey(from, to) ==
            MarkRange(from, to, "dataview source-mode-" \o inline_or_fullline
                                \o "-field-key" \o (IF isRounded THEN "-hidden" ELSE ""),
                      TRUE)
        markValue(from, to) ==
            MarkRange(from, to, "dataview source-mode-" \o inline_or_fullline \o "-field"
                                \o (IF isRounded THEN "-standalone" ELSE "") \o "-value",
                      TRUE)
    IN <<markColon(colonPos, valuePos)>>
       \o (IF wrapped THEN <<markBracket(openBracketPos, keyPos),
                             markBracket(closeBracketPos, fieldEndPos)>>
           ELSE <<>>)
       \o <<markKey(keyPos, colonPos), markValue(valuePos, closeBracketPos)>>

\* a decorator that takes the key and the value of a full-line field where
\* those of a bracket field are
createFieldDecoratorSourceModeBracketed(v, ln, field) ==
    LET wrapped == field.wrapping # NoWrapping
        openBracketPos == ln.from + field.start
        keyPos == ln.from + field.start + 1
        colonPos == ln.from + field.startValue - 2
        valuePos == ln.from + field.startValue
        fieldEndPos == ln.from + field.end
        closeBracketPos == ln.from + field.end - 1
        inline_or_fullline == IF wrapped THEN "inline" ELSE "fullline"
        isRounded == field.wrapping = "("
        markBracket(from, to) ==
            MarkRange(from, to, "dataview source-mode-inline-field-bracket", FALSE)
        markColon(from, to) ==
            MarkRange(from, to, "dataview source-mode-" \o inline_or_fullline
                                \o "-field-colon", FALSE)
        markKey(from, to) ==
            MarkRange(from, to, "dataview source-mode-" \o inline_or_fullline
                                \o "-field-key" \o (IF isRounded THEN "-hidden" ELSE ""),
                      TRUE)
        markValue(from, to) ==
            MarkRange(from, to, "dataview source-mode-" \o inline_or_fullline \o "-field"
                                \o (IF isRounded THEN "-standalone" ELSE "") \o "-value",
                      TRUE)
    IN <<markColon(colonPos, valuePos)>>
       \o (IF wrapped THEN <<markBracket(openBracketPos, keyPos),
                             markBracket(closeBracketPos, fieldEndPos)>>
           ELSE <<>>)
       \o (IF keyPos # colonPos THEN <<markKey(keyPos, colonPos)>> ELSE <<>>)
       \o (IF valuePos # closeBracketPos THEN <<markValue(valuePos, closeBracketPos)>>
           ELSE <<>>)

\* lp-render.ts:699  createFieldDecoratorSourceMode
createFieldDecoratorSourceMode(v, ln, field) ==
    LET wrapped == field.wrapping # NoWrapping
        openBracketPos == ln.from + field.start
        keyPos == IF wrapped THEN ln.from + field.start + 1 ELSE openBracketPos
        colonPos == ln.from + field.startValue - 2
        valuePos == ln.from + field.startValue
        fieldEndPos == ln.from + field.end
        closeBracketPos == IF wrapped THEN ln.from + field.end - 1 ELSE fieldEndPos
        inline_or_fullline == IF wrapped THEN "inline" ELSE "fullline"
        isRounded == field.wrapping = "("
        markBracket(from, to) ==
            MarkRange(from, to, "dataview source-mode-inline-field-bracket", FALSE)
        markColon(from, to) ==
            MarkRange(from, to, "dataview source-mode-" \o inline_or_fullline
                                \o "-field-colon", FALSE)
        markKey(from, to) ==
            MarkRange(from, to, "dataview source-mode-" \o inline_or_fullline
                                \o "-field-key" \o (IF isRounded THEN "-hidden" ELSE ""),
                      TRUE)
        markValue(from, to) ==
            MarkRange(from, to, "dataview source-mode-" \o inline_or_fullline \o "-field"
                                \o (IF isRounded THEN "-standalone" ELSE "") \o "-value",
                      TRUE)
    IN <<markColon(colonPos, valuePos)>>
       \o (IF wrapped THEN <<markBracket(openBracketPos, keyPos),
                             markBracket(closeBracketPos, fieldEndPos)>>
           ELSE <<>>)
       \o (IF keyPos # colonPos THEN <<markKey(keyPos, colonPos)>> ELSE <<>>)
       \o (IF valuePos # closeBracketPos THEN <<markValue(valuePos, closeBracketPos)>>
           ELSE <<>>)

\* lp-render.ts:631  createFieldDecoratorLivePreview
createFieldDecoratorLivePreview(v, ln, field) == <<>>

\* part_001:365  createFieldWidget: Returned(m, the Replace range)
createFieldWidget(m, v, ln, field) ==
    LET el == newEl(m)
        shown == IF field.wrapping = "(" THEN "<span>" \o Str(field.value) \o "</span>"
                 ELSE IF field.wrapping = "["
                 THEN "<span>" \o Str(field.key) \o "</span><span>"
                      \o Str(field.value) \o "</span>"
                 ELSE ""
        source == sliceString(v.doc, ln.from + field.start, ln.from + field.end)
    IN Returned(setContent(m, el, shown),
                <<ReplaceRange(ln.from + field.start, ln.from + field.end,
                               InlineWidget(<<>>, source, el))>>)

\* the removals of removeFieldDecorator / removeQueryDecorator: one filter
\* update for every range that between() found in the set it was called on
RECURSIVE removeEach(_, _)
removeEach(set, found) ==
    IF found = <<>> THEN set
    ELSE removeEach(removeTouching(set, Head(found).from, Head(found).to), Tail(found))

\* lp-render.ts:581  removeFieldDecorator
removeFieldDecorator(m, ln, field) ==
    [m EXCEPT !.decorations =
        removeEach(@, between(@, ln.from + field.start, ln.from + field.end))]

\* a removal that leaves the store as it is
removeQueryDecoratorNever(m, node) == m

\* lp-render.ts:595  removeQueryDecorator
removeQueryDecorator(m, node) ==
    [m EXCEPT !.decorations = removeEach(@, between(@, node.from - 1, node.to + 1))]

\* lp-render.ts:611  addFieldDecorator (part_001:241 in revision "fw")
addFieldDecorator(m, v, ln, field) ==
    LET exists == between(m.decorations, ln.from + field.start, ln.from + field.end) # <<>>
        newDeco == IF m.livepreview THEN createFieldDecoratorLivePreview(v, ln, field)
                   ELSE createFieldDecoratorSourceMode(v, ln, field)
        added(widget) == [widget.m EXCEPT !.decorations = addRanges(@, widget.value, FALSE)]
    IN IF exists \/ ~activeFile THEN m
       ELSE IF rev = "cur"
       THEN [m EXCEPT !.decorations = addRanges(@, newDeco, TRUE)]
       ELSE added(createFieldWidget(m, v, ln, field))

\* an insertion without the existence check
addQueryDecoratorUnchecked(m, v, node) ==
    LET added(newDeco) ==
            IF newDeco.value = Undefined THEN newDeco.m
            ELSE [newDeco.m EXCEPT !.decorations = addRanges(@, newDeco.value, FALSE)]
    IN IF ~activeFile THEN m ELSE added(createQueryWidget(m, v, node))

\* an insertion that does not ask for the active file
addQueryDecoratorAnyFile(m, v, node) ==
    LET exists == between(m.decorations, node.from - 1, node.to + 1) # <<>>
        added(newDeco) ==
            IF newDeco.value = Undefined THEN newDeco.m
            ELSE [newDeco.m EXCEPT !.decorations = addRanges(@, newDeco.value, FALSE)]
    IN IF exists THEN m
       ELSE added(createQueryWidget(m, v, node))

\* lp-render.ts:641  addQueryDecorator (lp-render.ts:207 addDeco in revision "q")
addQueryDecorator(m, v, node) ==
    LET exists == between(m.decorations, node.from - 1, node.to + 1) # <<>>
        added(newDeco) ==
            IF newDeco.value = Undefined THEN newDeco.m
            ELSE [newDeco.m EXCEPT !.decorations = addRanges(@, newDeco.value, FALSE)]
    IN IF exists \/ ~activeFile THEN m
       ELSE added(createQueryWidget(m, v, node))

-----------------------------------------------------------------------------
(* The reconciliation pass.  What a pass handles is a sequence of items, a  *)
(* field of a line or a node of the tree, in the order of its loops.       *)

FieldItem(ln, field) == [kind |-> "field", ln |-> ln, field |-> field, node |-> <<>>]
NodeItem(node) == [kind |-> "node", ln |-> <<>>, field |-> <<>>, node |-> node]

\* a scan that takes the full-line field of every line, and first
fieldsOfLineBoth(text) ==
    LET fields == extractInlineFields(text)
    IN IF rev = "cur" THEN extractFullLineField(text) \o fields ELSE fields

\* the fields the pass handles on a line: lp-render.ts:545-548; the earlier
\* revisions scan bracket fields only
fieldsOfLine(text) ==
    LET fields == extractInlineFields(text)
    IN IF rev = "cur" /\ fields = <<>> THEN extractFullLineField(text) ELSE fields

\* the fields of lines n..lineTo, in the order of the loops
RECURSIVE fieldsOfLines(_, _, _)
fieldsOfLines(d, n, lineTo) ==
    IF n > lineTo THEN <<>>
    ELSE LET items(ln, fields) == [i \in DOMAIN fields |-> FieldItem(ln, fields[i])]
             ofLine(ln) == items(ln, fieldsOfLine(ln.text))
         IN ofLine(line(d, n)) \o fieldsOfLines(d, n + 1, lineTo)

\* lp-render.ts:538-543  the lines of a visible range
fieldsOfRange(v, range) ==
    fieldsOfLines(v.doc, lineAt(v.doc, range.from).number, lineAt(v.doc, range.to).number)

\* lp-render.ts:560-563  the nodes of a visible range
nodesOfRange(v, range) ==
    LET nodes == iterate(v.doc, range.from, range.to)
    IN [i \in DOMAIN nodes |-> NodeItem(nodes[i])]

\* the items of the visible ranges: per range its fields (when fields is set)
\* and then its nodes (when nodes is set)
RECURSIVE itemsOfRanges(_, _, _, _)
itemsOfRanges(v, ranges, fields, nodes) ==
    IF ranges = <<>> THEN <<>>
    ELSE (IF fields THEN fieldsOfRange(v, Head(ranges)) ELSE <<>>)
         \o (IF nodes THEN nodesOfRange(v, Head(ranges)) ELSE <<>>)
         \o itemsOfRanges(v, Tail(ranges), fields, nodes)

\* the order of a pass.  lp-render.ts:536: all the fields, then (in live
\* preview) all the nodes; lp-render.ts:177: the nodes; part_001:171: range by
\* range, the fields and then the nodes
passOrder(v, lp) ==
    IF rev = "cur"
    THEN itemsOfRanges(v, v.visibleRanges, TRUE, FALSE)
         \o (IF lp THEN itemsOfRanges(v, v.visibleRanges, FALSE, TRUE) ELSE <<>>)
    ELSE itemsOfRanges(v, v.visibleRanges, rev # "q", TRUE)

\* lp-render.ts:549-555  the body of the field loop
reconcileField(m, v, ln, field) ==
    IF ~fieldRenderInfo(m, v, ln, field).render
    THEN removeFieldDecorator(m, ln, field)
    ELSE addFieldDecorator(m, v, ln, field)

\* an enter callback that removes around every node that is not to render
enterRemoving(m, v, node) ==
    LET decide(info) ==
            IF ~info.render THEN removeQueryDecorator(m, node)
            ELSE addQueryDecorator(m, v, node)
    IN decide(queryRenderInfo(v, node))

\* lp-render.ts:564-571  the enter callback
enter(m, v, node) ==
    LET decide(info) ==
            IF ~info.render /\ info.isQuery THEN removeQueryDecorator(m, node)
            ELSE IF info.render THEN addQueryDecorator(m, v, node)
            ELSE m
    IN decide(queryRenderInfo(v, node))

RECURSIVE reconcile(_, _, _)
reconcile(m, v, work) ==
    IF work = <<>> THEN m
    ELSE LET handle(item) == IF item.kind = "field"
                             THEN reconcileField(m, v, item.ln, item.field)
                             ELSE enter(m, v, item.node)
         IN reconcile(handle(Head(work)), v, Tail(work))

\* lp-render.ts:536  updateTree (lp-render.ts:177 in revision "q",
\* part_001:171 in revision "fw")
updateTree(m, v) == reconcile(m, v, passOrder(v, m.livepreview))

-----------------------------------------------------------------------------
(* The from-scratch render of the earlier revisions *)

Rendering(m, widgets, returned) == [m |-> m, widgets |-> widgets, returned |-> returned]

\* part_001:336-340: a field that is not to render returns from inlineRender
renderField(acc, v, ln, field) ==
    LET pushed(widget) == Rendering(widget.m, acc.widgets \o widget.value, FALSE)
    IN IF ~fieldRenderInfo(acc.m, v, ln, field).render
       THEN Rendering(acc.m, acc.widgets, TRUE)
       ELSE pushed(createFieldWidget(acc.m, v, ln, field))

\* lp-render.ts:266-272  the enter callback of the from-scratch render
renderNode(acc, v, node) ==
    LET pushed(widget) == Rendering(widget.m, acc.widgets \o widget.value, FALSE)
    IN IF ~queryRenderInfo(v, node).render THEN acc
       ELSE pushed(createQueryWidget(acc.m, v, node))

RECURSIVE render(_, _, _)
render(acc, v, work) ==
    IF work = <<>> \/ acc.returned THEN acc
    ELSE LET handle(item) == IF item.kind = "field"
                             THEN renderField(acc, v, item.ln, item.field)
                             ELSE renderNode(acc, v, item.node)
         IN render(handle(Head(work)), v, Tail(work))

\* lp-render.ts:247  inlineQueryRender (part_001:315 inlineRender), followed by
\* the caller's "?? Decoration.none"
inlineRender(m, v) ==
    LET result(acc) == IF acc.returned THEN [acc.m EXCEPT !.decorations = <<>>]
                       ELSE [acc.m EXCEPT !.decorations = DecorationSet(acc.widgets)]
    IN IF ~initialized \/ ~activeFile THEN [m EXCEPT !.decorations = <<>>]
       ELSE result(render(Rendering(m, <<>>, FALSE), v, passOrder(v, TRUE)))

-----------------------------------------------------------------------------
(* The handlers *)

ViewUpdate(docChanged, selectionSet, viewportChanged, changes, lp) ==
    [docChanged |-> docChanged, selectionSet |-> selectionSet,
     viewportChanged |-> viewportChanged, changes |-> changes, lp |-> lp]

\* an update whose document change leaves the store at its old offsets
updateUnmapped(m, v, u) ==
    LET m1 == IF rev = "cur" THEN [m EXCEPT !.livepreview = u.lp] ELSE m
        none == [m1 EXCEPT !.decorations = <<>>]
    IN IF rev # "cur" /\ ~u.lp THEN none
       ELSE IF u.docChanged \/ u.selectionSet \/ (rev = "cur" /\ u.viewportChanged)
       THEN updateTree(IF u.docChanged \/ u.selectionSet THEN m1 ELSE none, v)
       ELSE IF u.viewportChanged THEN inlineRender(m1, v)
       ELSE m1

\* an update whose viewport rebuild is added to the store it should replace
updateKeeping(m, v, u) ==
    LET m1 == IF rev = "cur" THEN [m EXCEPT !.livepreview = u.lp] ELSE m
        mapped == [m1 EXCEPT !.decorations = mapSet(@, u.changes)]
        none == [m1 EXCEPT !.decorations = <<>>]
        kept(fresh) == [fresh EXCEPT !.decorations = addRanges(m1.decorations, @, TRUE)]
    IN IF rev # "cur" /\ ~u.lp THEN none
       ELSE IF u.docChanged \/ u.selectionSet
       THEN updateTree(IF u.docChanged THEN mapped ELSE m1, v)
       ELSE IF u.viewportChanged
       THEN kept(IF rev = "cur" THEN updateTree(none, v) ELSE inlineRender(m1, v))
       ELSE m1

\* an update that discards the store before every pass
updateRebuilding(m, v, u) ==
    LET m1 == IF rev = "cur" THEN [m EXCEPT !.livepreview = u.lp] ELSE m
        none == [m1 EXCEPT !.decorations = <<>>]
    IN IF rev # "cur" /\ ~u.lp THEN none
       ELSE IF u.docChanged \/ u.selectionSet \/ (rev = "cur" /\ u.viewportChanged)
       THEN updateTree(none, v)
       ELSE IF u.viewportChanged THEN inlineRender(m1, v)
       ELSE m1

\* lp-render.ts:518  update (lp-render.ts:156 and part_001:146 in the
\* earlier revisions); v is update.view
update(m, v, u) ==
    LET m1 == IF rev = "cur" THEN [m EXCEPT !.livepreview = u.lp] ELSE m
        mapped == [m1 EXCEPT !.decorations = mapSet(@, u.changes)]
        none == [m1 EXCEPT !.decorations = <<>>]
    IN IF rev # "cur" /\ ~u.lp THEN none
       ELSE IF u.docChanged \/ u.selectionSet \/ (rev = "cur" /\ u.viewportChanged)
       THEN updateTree(IF u.docChanged THEN mapped
                       ELSE IF u.selectionSet THEN m1 ELSE none, v)
       ELSE IF u.viewportChanged THEN inlineRender(m1, v)
       ELSE m1

\* lp-render.ts:510  constructor (lp-render.ts:150 and part_001:140 in the
\* earlier revisions)
constructor(v, lp) ==
    LET m == [decorations |-> <<>>, livepreview |-> rev = "cur" /\ lp,
              els |-> << >>, pending |-> {}, log |-> <<>>]
    IN IF rev = "cur" THEN updateTree(m, v) ELSE inlineRender(m, v)

-----------------------------------------------------------------------------
(* Elements are kept while a decoration of the store or a deferred         *)
(* computation refers to them, and are numbered in the order of the store. *)

RECURSIVE idsInOrder(_)
idsInOrder(S) ==
    IF S = {} THEN <<>>
    ELSE LET least == CHOOSE x \in S : \A y \in S : x <= y
         IN <<least>> \o idsInOrder(S \ {least})

storeEls(set) ==
    LET widgets == SelectSeq(set, LAMBDA r : r.widget.el # 0)
    IN [i \in DOMAIN widgets |-> widgets[i].widget.el]

collect(m) ==
    LET kept == storeEls(m.decorations)
        rest == idsInOrder({p.el : p \in m.pending} \ Range(kept))
        order == kept \o rest
        renamed(el) == IF el = 0 THEN 0 ELSE CHOOSE i \in DOMAIN order : order[i] = el
    IN [m EXCEPT
          !.decorations = [i \in DOMAIN @ |->
                              [@[i] EXCEPT !.widget.el = renamed(@)]],
          !.pending = {[p EXCEPT !.el = renamed(@)] : p \in @},
          !.els = [i \in DOMAIN order |-> m.els[order[i]]]]

-----------------------------------------------------------------------------
(* The editor around the plugin: the documents it is opened on, the        *)
(* selections, visible ranges and changes an update can bring.             *)

SelectionRange(from, to) == [from |-> from, to |-> to]

DefaultSettings ==
    [inlineQueryPrefix |-> <<"=">>, inlineJsQueryPrefix |-> <<"$", "=">>,
     enableInlineDataview |-> TRUE, enableInlineDataviewJs |-> TRUE]

\* an expression query between two letters
DocQuery == <<"a", BT, "=", "x", BT, "b">>

\* a bracket field whose value is an expression query
DocNested == <<"[", ":", ":", BT, "=", "x", BT, "]", "b">>

\* an expression query that does not parse, then one whose evaluation fails
DocFailing == <<BT, "=", "!", BT, SP, BT, "=", "?", BT, "b">>

\* a script query that awaits and then throws
DocAwait == <<BT, "$", "=">> \o Await \o <<"?", BT, "b">>

\* a script query that awaits and then returns a result
DocDeferred == <<BT, "$", "=">> \o Await \o <<BT, "b">>

\* an expression query and a script query with the same code
DocForms == <<BT, "=", "x", BT, SP, BT, "$", "=", "x", BT, "b">>

\* an inline code that is left open on its line and closed on the next one
DocOpen == <<"a", BT, "=", "x", NL, BT, "b">>

\* an inline code that is left open at the end of the document
DocUnclosed == <<"a", BT, "=", "x">>

\* a text that starts with the prefix but is no inline code, an inline code
\* that is no query, and a query that ends the document
DocPlain == <<"=", BT, "x", BT, SP, BT, "=", "y", BT>>

\* the settings with each of the two forms enabled or disabled
Settings ==
    {[DefaultSettings EXCEPT !.enableInlineDataview = e, !.enableInlineDataviewJs = js] :
        e \in BOOLEAN, js \in BOOLEAN}

\* a bracket field with an inline query directly behind it
DocAdjacent == <<"[", "a", ":", ":", "b", "]", BT, "=", "x", BT, "c">>

\* the documents the editor is opened on
FormDocuments == {DocForms, DocOpen, DocUnclosed, DocPlain}
Documents == {DocNested}
EarlierDocuments == {DocQuery, DocNested, DocAdjacent}
QueryDocuments == {DocFailing, DocAwait, DocDeferred}

\* the selections: one cursor or one range of at most MaxSelSpan characters,
\* or a cursor at each end of the document
Selections(len) ==
    {<<SelectionRange(from, to)>> :
        <<from, to>> \in {p \in (0..len) \X (0..len) :
                            p[1] <= p[2] /\ p[2] - p[1] <= MaxSelSpan}}
    \cup {<<SelectionRange(0, 0), SelectionRange(len, len)>>}

\* the visible ranges: the whole document, its first half, or two ranges
\* around a gap in the middle
VisibleRanges(len) ==
    {<<SelectionRange(0, len)>>, <<SelectionRange(0, len \div 2)>>}
    \cup (IF len >= 4
          THEN {<<SelectionRange(0, (len \div 2) - 1),
                  SelectionRange((len \div 2) + 1, len)>>}
          ELSE {})

\* the changes: one character inserted, or one character deleted
InsertTexts == {<<"x">>, <<NL>>}

Changes(d) ==
    {ChangeSpec(p, p, t) : p \in 0..Len(d), t \in InsertTexts}
    \cup {ChangeSpec(p, p + 1, <<>>) : p \in 0..(Len(d) - 1)}

NoChanges == ChangeSpec(0, 0, <<>>)

\* EditorSelection.map(changes)
mapSelection(sel, chg) ==
    [i \in DOMAIN sel |->
        IF sel[i].from = sel[i].to
        THEN SelectionRange(mapPos(chg, sel[i].from, -1), mapPos(chg, sel[i].from, -1))
        ELSE LET from == mapPos(chg, sel[i].from, 1)
                 to == mapPos(chg, sel[i].to, -1)
             IN SelectionRange(Min(from, to), Max(from, to))]

\* the visible ranges after a change that did not move the viewport
mapVisible(vis, chg) ==
    [i \in DOMAIN vis |->
        SelectionRange(mapPos(chg, vis[i].from, -1), mapPos(chg, vis[i].to, 1))]

-----------------------------------------------------------------------------
(* The state machine *)

\* the instance as a handler finds it
This ==
    [decorations |-> decorations, livepreview |-> livepreview, els |-> els,
     pending |-> pending, log |-> <<>>]

\* the instance as a handler leaves it
Leaves(m) ==
    \E c \in {collect(m)} :
       /\ Cardinality(c.pending) <= MaxPending
       /\ decorations' = c.decorations
       /\ livepreview' = c.livepreview
       /\ els' = c.els
       /\ pending' = c.pending
       /\ log' = c.log

\* what the last handler was: its name and the update it was given
Handled(handler, u) == [handler |-> handler, u |-> u]

NoUpdate == ViewUpdate(FALSE, FALSE, FALSE, NoChanges, FALSE)

WholeDocument(d) == <<SelectionRange(0, Len(d))>>

\* the editor opens a document and constructs a plugin that was created with
\* one of the given settings
InitEditorWith(revs, docs, ready, configured) ==
    /\ rev \in revs
    /\ doc \in docs
    /\ selection = <<SelectionRange(0, 0)>>
    /\ visible = WholeDocument(doc)
    /\ lpField \in BOOLEAN
    /\ settings \in configured
    /\ initialized \in ready
    /\ activeFile = TRUE
    /\ edits = 0
    /\ last = Handled("constructor", NoUpdate)
    /\ \E c \in {collect(constructor(View(doc, selection, visible), lpField))} :
          /\ decorations = c.decorations
          /\ livepreview = c.livepreview
          /\ els = c.els
          /\ pending = c.pending
          /\ log = c.log

\* the editor opens a document and constructs the plugin
InitEditor(revs, docs, ready) == InitEditorWith(revs, docs, ready, {DefaultSettings})

\* an update that changes the document.  The change is typed at the cursor,
\* which then stands behind the inserted text, or comes from elsewhere and the
\* selection is mapped through it.  The viewport follows the change or, when
\* scrolled, shows the whole document again.
DocChanged(chg, typed, scrolled) ==
    LET d == applyChange(doc, chg)
        caret == chg.from + Len(chg.insert)
        sel == IF typed THEN <<SelectionRange(caret, caret)>>
               ELSE mapSelection(selection, chg)
        vis == IF scrolled THEN WholeDocument(d) ELSE mapVisible(visible, chg)
        u == ViewUpdate(TRUE, typed, scrolled, chg, lpField)
    IN /\ edits < MaxEdits
       /\ typed => selection = <<SelectionRange(chg.to, chg.to)>>
       /\ scrolled => visible # WholeDocument(doc)
       /\ doc' = d
       /\ selection' = sel
       /\ visible' = vis
       /\ edits' = edits + 1
       /\ last' = Handled("update", u)
       /\ Leaves(update(This, View(d, sel, vis), u))
       /\ UNCHANGED <<rev, lpField, settings, initialized, activeFile>>

\* an update that sets the selection and leaves the document alone; when
\* scrolled, the viewport moved with it and shows the whole document again
SelectionSet(sel, scrolled) ==
    LET vis == IF scrolled THEN WholeDocument(doc) ELSE visible
        u == ViewUpdate(FALSE, TRUE, scrolled, NoChanges, lpField)
    IN /\ scrolled => visible # WholeDocument(doc)
       /\ selection' = sel
       /\ visible' = vis
       /\ last' = Handled("update", u)
       /\ Leaves(update(This, View(doc, sel, vis), u))
       /\ UNCHANGED <<rev, doc, lpField, settings, initialized, activeFile, edits>>

\* an update that only reports a changed viewport
ViewportChanged(vis) ==
    LET u == ViewUpdate(FALSE, FALSE, TRUE, NoChanges, lpField)
    IN /\ visible' = vis
       /\ last' = Handled("update", u)
       /\ Leaves(update(This, View(doc, selection, vis), u))
       /\ UNCHANGED <<rev, doc, selection, lpField, settings, initialized,
                      activeFile, edits>>

\* an update with none of the three flags; the editor may have switched
\* between live preview and source mode
OtherUpdate(lp) ==
    LET u == ViewUpdate(FALSE, FALSE, FALSE, NoChanges, lp)
    IN /\ lpField' = lp
       /\ last' = Handled("update", u)
       /\ Leaves(update(This, View(doc, selection, visible), u))
       /\ UNCHANGED <<rev, doc, selection, visible, settings, initialized,
                      activeFile, edits>>

\* a settlement that takes the widget of the query out of the store, to
\* have it drawn again
SettleRedrawn(p) ==
    LET m == [This EXCEPT !.pending = @ \ {p},
                          !.decorations = SelectSeq(@, LAMBDA r : r.widget.el # p.el)]
    IN /\ last' = Handled("settle", NoUpdate)
       /\ Leaves(IF evalThrows(p.code) THEN m
                 ELSE setContent(logCall(m, "renderValue", "result of " \o Str(p.code)),
                                 p.el, renderValue("result of " \o Str(p.code))))
       /\ UNCHANGED <<rev, doc, selection, visible, lpField, settings, initialized,
                      activeFile, edits>>

\* lp-render.ts:813-817: the deferred computation of a script query settles;
\* when it is fulfilled the then-callback renders the result into the
\* element, when it is rejected nothing handles the rejection
Settle(p) ==
    LET m == [This EXCEPT !.pending = @ \ {p}]
    IN /\ last' = Handled("settle", NoUpdate)
       /\ Leaves(IF evalThrows(p.code) THEN m
                 ELSE setContent(logCall(m, "renderValue", "result of " \o Str(p.code)),
                                 p.el, renderValue("result of " \o Str(p.code))))
       /\ UNCHANGED <<rev, doc, selection, visible, lpField, settings, initialized,
                      activeFile, edits>>

\* the page index finishes its first pass
IndexInitialized ==
    /\ ~initialized
    /\ initialized' = TRUE
    /\ UNCHANGED <<rev, doc, selection, visible, lpField, settings, activeFile,
                   decorations, livepreview, els, pending, log, last, edits>>

\* The current revision, on a document that is edited
Init == InitEditor({"cur"}, Documents, {TRUE})

Next ==
    \/ \E chg \in Changes(doc), typed \in BOOLEAN, scrolled \in BOOLEAN :
          DocChanged(chg, typed, scrolled)
    \/ \E sel \in Selections(Len(doc)), scrolled \in BOOLEAN : SelectionSet(sel, scrolled)
    \/ \E vis \in VisibleRanges(Len(doc)) : ViewportChanged(vis)
    \/ \E lp \in BOOLEAN : OtherUpdate(lp)

Spec == Init /\ [][Next]_vars

\* The earlier revisions, opened before or after the page index is ready
InitEarlier == InitEditor({"q", "fw"}, EarlierDocuments, BOOLEAN)

NextEarlier ==
    \/ \E sel \in Selections(Len(doc)), scrolled \in BOOLEAN : SelectionSet(sel, scrolled)
    \/ \E vis \in VisibleRanges(Len(doc)) : ViewportChanged(vis)
    \/ \E lp \in BOOLEAN : OtherUpdate(lp)
    \/ IndexInitialized

SpecEarlier == InitEarlier /\ [][NextEarlier]_vars

\* The current revision, on documents whose queries fail or are deferred
InitQueries == InitEditor({"cur"}, QueryDocuments, {TRUE})

NextQueries ==
    \/ \E sel \in Selections(Len(doc)), scrolled \in BOOLEAN : SelectionSet(sel, scrolled)
    \/ \E vis \in VisibleRanges(Len(doc)) : ViewportChanged(vis)
    \/ \E lp \in BOOLEAN : OtherUpdate(lp)
    \/ \E p \in pending : Settle(p)

SpecQueries == InitQueries /\ [][NextQueries]_vars

\* The current revision, with either form of query enabled or disabled, on
\* documents with both forms, with an unclosed inline code and with inline
\* code that is no query
InitForms == InitEditorWith({"cur"}, FormDocuments, {TRUE}, Settings)

NextForms ==
    \/ \E sel \in Selections(Len(doc)), scrolled \in BOOLEAN : SelectionSet(sel, scrolled)
    \/ \E vis \in VisibleRanges(Len(doc)) : ViewportChanged(vis)
    \/ \E lp \in BOOLEAN : OtherUpdate(lp)

SpecForms == InitForms /\ [][NextForms]_vars

\* an inline query on each of two lines
DocLines == <<BT, "=", "x", BT, NL, BT, "=", "y", BT>>

\* an update that reports a set selection and a changed viewport at once:
\* the caret has moved and the editor has scrolled with it
SelectionScrolled(sel, vis) ==
    LET u == ViewUpdate(FALSE, TRUE, TRUE, NoChanges, lpField)
    IN /\ vis # visible
       /\ selection' = sel
       /\ visible' = vis
       /\ last' = Handled("update", u)
       /\ Leaves(update(This, View(doc, sel, vis), u))
       /\ UNCHANGED <<rev, doc, lpField, settings, initialized, activeFile, edits>>

(* The current revision on a document of two lines, with updates that     *)
(* scroll: alone, or together with a set selection.                        *)
InitScroll == InitEditor({"cur"}, {DocLines}, {TRUE})

NextScroll ==
    \/ \E sel \in Selections(Len(doc)), vis \in VisibleRanges(Len(doc)) :
          SelectionScrolled(sel, vis)
    \/ \E vis \in VisibleRanges(Len(doc)) : ViewportChanged(vis)
    \/ \E lp \in BOOLEAN : OtherUpdate(lp)

SpecScroll == InitScroll /\ [][NextScroll]_vars

\* the one-line documents with one "::": before it an opening bracket or
\* none and a key or none, behind it a value or none and a closing bracket
\* or none, with or without text behind all of it
FieldTexts ==
    {open \o key \o <<":", ":">> \o value \o close \o post :
        open \in {<<>>, <<"[">>, <<"(">>},
        key \in {<<>>, <<"k">>}, value \in {<<>>, <<"v">>},
        close \in {<<>>, <<"]">>, <<")">>}, post \in {<<>>, <<"b">>}}

\* a full-line field whose value is a bracket field
DocBoth == <<"k", ":", ":", "[", "a", ":", ":", "b", "]">>

\* a full-line field, a line without a field and a line with two bracket fields
DocFieldLines == <<"k", ":", ":", "v", NL, "a", "b", NL,
                   "[", "a", ":", ":", "b", "]", SP, "(", "c", ":", ":", "d", ")">>

FieldDocuments == FieldTexts \cup {DocBoth, DocFieldLines, DocForms}

(* The current revision on documents with inline fields of every kind and  *)
(* on one with two queries, in source mode and in live preview.            *)
InitFields == InitEditor({"cur"}, FieldDocuments, {TRUE})

NextFields ==
    \/ \E sel \in Selections(Len(doc)), scrolled \in BOOLEAN : SelectionSet(sel, scrolled)
    \/ \E vis \in VisibleRanges(Len(doc)) : ViewportChanged(vis)
    \/ \E lp \in BOOLEAN : OtherUpdate(lp)

SpecFields == InitFields /\ [][NextFields]_vars

\* a query whose text starts with "=" and with "=$"
DocPrefixed == <<BT, "=", "$", "x", BT, "b">>

\* the default prefixes; a script prefix that begins with the expression
\* prefix; an expression prefix that begins with the script prefix
PrefixSettings ==
    {DefaultSettings,
     [DefaultSettings EXCEPT !.inlineJsQueryPrefix = <<"=", "$">>],
     [DefaultSettings EXCEPT !.inlineQueryPrefix = <<"=", "$">>,
                             !.inlineJsQueryPrefix = <<"=">>]}

(* The current revision with the two prefixes configured apart and one as  *)
(* the beginning of the other.                                             *)
InitPrefixes == InitEditorWith({"cur"}, {DocForms, DocPrefixed}, {TRUE}, PrefixSettings)

NextPrefixes ==
    \/ \E sel \in Selections(Len(doc)), scrolled \in BOOLEAN : SelectionSet(sel, scrolled)
    \/ \E vis \in VisibleRanges(Len(doc)) : ViewportChanged(vis)
    \/ \E lp \in BOOLEAN : OtherUpdate(lp)

SpecPrefixes == InitPrefixes /\ [][NextPrefixes]_vars

\* the events a widget is asked about
Events == {MouseEvent(type, shiftKey) : type \in {"mousedown", "mouseup"}, shiftKey \in BOOLEAN}

\* the answers of view.posAtCoords for an event on the widget of the range r
posAtCoords(r) == {<<>>, <<r.from>>, <<r.to>>}

\* the editor asks the widget of the decoration i about an event.  When the
\* widget calls editor.setCursor the selection becomes a caret at that
\* offset, and the editor reports it in an update with selectionSet.
IgnoreEvent(i, event, currentPos) ==
    LET ie == ignoreEvent(event, currentPos, TRUE)
        sel == IF ie.cursor = <<>> THEN selection
               ELSE <<SelectionRange(ie.cursor[1], ie.cursor[1])>>
        u == ViewUpdate(FALSE, TRUE, FALSE, NoChanges, lpField)
    IN /\ decorations[i].kind = "replace"
       /\ selection' = sel
       /\ last' = Handled("ignoreEvent", IF ie.cursor = <<>> THEN NoUpdate ELSE u)
       /\ Leaves(IF ie.cursor = <<>> THEN This
                 ELSE update(This, View(doc, sel, visible), u))
       /\ UNCHANGED <<rev, doc, visible, lpField, settings, initialized, activeFile, edits>>

(* The current revision with widgets that receive mouse events.            *)
InitEvents == InitEditor({"cur"}, {DocQuery, DocLines}, {TRUE})

NextEvents ==
    \/ \E sel \in Selections(Len(doc)), scrolled \in BOOLEAN : SelectionSet(sel, scrolled)
    \/ \E vis \in VisibleRanges(Len(doc)) : ViewportChanged(vis)
    \/ \E lp \in BOOLEAN : OtherUpdate(lp)
    \/ \E i \in DOMAIN decorations, event \in Events :
          \E currentPos \in posAtCoords(decorations[i]) : IgnoreEvent(i, event, currentPos)

SpecEvents == InitEvents /\ [][NextEvents]_vars

(* The current revision on a document with one query, which is edited.     *)
InitEdits == InitEditor({"cur"}, {DocQuery}, {TRUE})

NextEdits ==
    \/ \E chg \in Changes(doc), typed \in BOOLEAN, scrolled \in BOOLEAN :
          DocChanged(chg, typed, scrolled)
    \/ \E sel \in Selections(Len(doc)), scrolled \in BOOLEAN : SelectionSet(sel, scrolled)
    \/ \E vis \in VisibleRanges(Len(doc)) : ViewportChanged(vis)
    \/ \E lp \in BOOLEAN : OtherUpdate(lp)

SpecEdits == InitEdits /\ [][NextEdits]_vars

\* app.workspace.getActiveFile() begins to answer null, or a file again;
\* the plugin is not told
ActiveFileChanged(file) ==
    /\ activeFile # file
    /\ activeFile' = file
    /\ UNCHANGED <<rev, doc, selection, visible, lpField, settings, initialized,
                   decorations, livepreview, els, pending, log, last, edits>>

(* The current revision while the host has an active file and while it     *)
(* has none.                                                               *)
InitNoFile == InitEditor({"cur"}, {DocNested, DocForms}, {TRUE})

NextNoFile ==
    \/ \E sel \in Selections(Len(doc)), scrolled \in BOOLEAN : SelectionSet(sel, scrolled)
    \/ \E vis \in VisibleRanges(Len(doc)) : ViewportChanged(vis)
    \/ \E lp \in BOOLEAN : OtherUpdate(lp)
    \/ \E file \in BOOLEAN : ActiveFileChanged(file)

SpecNoFile == InitNoFile /\ [][NextNoFile]_vars

-----------------------------------------------------------------------------
(* What the properties speak of *)

TheView == View(doc, selection, visible)

\* the fields and the inline queries a pass over the view v meets
FieldsOf(v) == Range(itemsOfRanges(v, v.visibleRanges, TRUE, FALSE))
QueriesOf(v) ==
    {it.node : it \in {q \in Range(itemsOfRanges(v, v.visibleRanges, FALSE, TRUE)) :
                          queryRenderInfo(v, q.node).isQuery}}

VisibleFields == FieldsOf(TheView)
VisibleQueries == QueriesOf(TheView)

\* every field and every inline query of the document
AllFields == FieldsOf(View(doc, selection, WholeDocument(doc)))
AllQueries == QueriesOf(View(doc, selection, WholeDocument(doc)))

Overlapped(from, to) == selectionAndRangeOverlap(selection, from, to)

\* the Replace decorations of the store whose range covers [from, to]
ReplacesCovering(set, from, to) ==
    {i \in DOMAIN set : set[i].kind = "replace" /\ set[i].from <= from /\ set[i].to >= to}

\* the Replace decorations of the store whose range is [from, to]
ReplacesAt(set, from, to) ==
    {i \in DOMAIN set : set[i].kind = "replace" /\ set[i].from = from /\ set[i].to = to}

\* the ranges and kinds of a store, in its order
StoreRanges(set) ==
    [i \in DOMAIN set |-> [from |-> set[i].from, to |-> set[i].to,
                           kind |-> set[i].kind, class |-> set[i].class]]

FollowedByNewline(n) == sliceString(doc, n.to, n.to + 1) = <<NL>>

\* the last handler was an update that ran a reconciliation pass
AfterPass ==
    /\ last.handler = "update"
    /\ last.u.docChanged \/ last.u.selectionSet \/ last.u.viewportChanged

ViewportOnly(u) == u.viewportChanged /\ ~u.docChanged /\ ~u.selectionSet

SelectionUpdate == ViewUpdate(FALSE, TRUE, FALSE, NoChanges, lpField)
ViewportUpdate == ViewUpdate(FALSE, FALSE, TRUE, NoChanges, lpField)

-----------------------------------------------------------------------------
(* The properties *)

\* C1: after a reconciliation pass in live preview, no Replace decoration
\* covers the span of a visible field, or the widened span of a visible
\* inline query, that a selection range overlaps.
RevealHalf ==
    (AfterPass /\ livepreview) =>
        /\ \A it \in VisibleFields :
              Overlapped(it.ln.from + it.field.start, it.ln.from + it.field.end)
              => ReplacesCovering(decorations, it.ln.from + it.field.start,
                                  it.ln.from + it.field.end) = {}
        /\ \A n \in VisibleQueries :
              Overlapped(n.from - 1, n.to + 1)
              => ReplacesCovering(decorations, n.from - 1, n.to + 1) = {}

\* a selection update in live preview has just put the selection on a
\* visible inline query
RevealHalfWitness ==
    /\ AfterPass /\ livepreview /\ last.u.selectionSet
    /\ \E n \in VisibleQueries : Overlapped(n.from - 1, n.to + 1)

\* C2: after a reconciliation pass in live preview with an active file, every
\* visible inline query that is not followed by a newline and whose widened
\* span no selection range overlaps has exactly one Replace decoration, and
\* its range is exactly the widened span.
ConcealHalf ==
    (AfterPass /\ livepreview /\ activeFile) =>
        \A n \in VisibleQueries :
            (~FollowedByNewline(n) /\ ~Overlapped(n.from - 1, n.to + 1))
            => /\ Cardinality(ReplacesCovering(decorations, n.from - 1, n.to + 1)) = 1
               /\ ReplacesAt(decorations, n.from - 1, n.to + 1)
                     = ReplacesCovering(decorations, n.from - 1, n.to + 1)

\* C3: the store never holds two Replace decorations that both cover the
\* span of the same field or the widened span of the same inline query.
MutualExclusion ==
    /\ \A it \in AllFields :
          Cardinality(ReplacesCovering(decorations, it.ln.from + it.field.start,
                                       it.ln.from + it.field.end)) <= 1
    /\ \A n \in AllQueries :
          Cardinality(ReplacesCovering(decorations, n.from - 1, n.to + 1)) <= 1

RepeatedViewport ==
    \E first \in {update(This, TheView, ViewportUpdate)} :
        StoreRanges(update(first, TheView, ViewportUpdate).decorations)
            = StoreRanges(first.decorations)

\* a viewport update has just rebuilt a store that holds decorations
RepeatedViewportWitness ==
    /\ last.handler = "update" /\ ViewportOnly(last.u)
    /\ decorations # <<>>
    /\ update(This, TheView, ViewportUpdate).decorations # <<>>

\* C6: a concealed inline query is revealed by a selection update that puts
\* the selection on its widened span, and a following selection update that
\* takes the selection away installs exactly one Replace decoration over the
\* same range again, with a widget that is eq to the one it had.
RoundTrip ==
    (lpField /\ livepreview) =>
        \A n \in VisibleQueries :
        \A i \in ReplacesAt(decorations, n.from - 1, n.to + 1) :
        \A inside \in Selections(Len(doc)) :
            (/\ ~Overlapped(n.from - 1, n.to + 1)
             /\ selectionAndRangeOverlap(inside, n.from - 1, n.to + 1))
            => \E revealed \in {update(This, View(doc, inside, visible), SelectionUpdate)} :
               \E concealed \in {update(revealed, TheView, SelectionUpdate)} :
                  /\ ReplacesCovering(revealed.decorations, n.from - 1, n.to + 1) = {}
                  /\ Cardinality(ReplacesCovering(concealed.decorations,
                                                  n.from - 1, n.to + 1)) = 1
                  /\ \A j \in ReplacesCovering(concealed.decorations, n.from - 1, n.to + 1) :
                        /\ concealed.decorations[j].from = n.from - 1
                        /\ concealed.decorations[j].to = n.to + 1
                        /\ eq(concealed.decorations[j].widget, decorations[i].widget)

\* a decoration as the pass over the view v installs it: a Replace over the
\* widened span of a query, or a mark of a field in source mode
InstalledBy(r, v) ==
    \/ /\ r.kind = "replace"
       /\ \E n \in QueriesOf(v) : r.from = n.from - 1 /\ r.to = n.to + 1
    \/ /\ r.kind = "mark"
       /\ \E it \in FieldsOf(v) :
             \E k \in Range(createFieldDecoratorSourceMode(v, it.ln, it.field)) :
                 k.from = r.from /\ k.to = r.to /\ k.class = r.class

\* a decoration of the store before, at the place the change maps it to
CarriedOver(r, set, chg) ==
    \E o \in Range(mapSet(set, chg)) :
        /\ o.from = r.from /\ o.to = r.to /\ o.kind = r.kind /\ o.class = r.class
        /\ o.widget.sourceString = r.widget.sourceString

\* C7: after an update with docChanged, every decoration of the store is
\* either a decoration of the store before, at the offsets the change set
\* maps it to, or one the pass installed on a span of the changed document:
\* none is left at an offset of the document before the change.
MappedBeforePass ==
    [][(last'.handler = "update" /\ last'.u.docChanged)
       => \A r \in Range(decorations') :
             \/ CarriedOver(r, decorations, last'.u.changes)
             \/ InstalledBy(r, View(doc', selection', visible'))]_vars

\* a document change has shifted a Replace decoration that the pass did not
\* have to build
MappedBeforePassWitness ==
    /\ last.handler = "update" /\ last.u.docChanged
    /\ last.u.changes.insert # <<>>
    /\ log = <<>>
    /\ \E r \in Range(decorations) : r.kind = "replace" /\ last.u.changes.from < r.from

\* C8: while the page index is not initialized the store is empty.
IndexGate == ~initialized => decorations = <<>>

\* the literal a widget shows when its expression does not parse
ParseFailure(code) ==
    "Dataview (inline field '" \o Str(code) \o "'): " \o parseField(code).error

\* the literal a widget shows when the evaluation of its expression fails
ExecutionFailure(code) ==
    "Dataview (for inline query '" \o parseField(code).value \o "'): "
        \o executeInline(code).error

\* the last handler ran a pass in live preview
PassedInLivePreview ==
    /\ livepreview
    /\ last.handler = "constructor" \/ AfterPass

\* the code of the expression query in node n
ExpressionOf(n) ==
    trim(substring(sliceString(doc, n.from, n.to), Len(settings.inlineQueryPrefix)))

\* C9: after a pass in live preview every visible expression query that is
\* to render has its Replace decoration, also when its expression fails: when
\* it does not parse, the widget shows the literal of the parse failure and
\* the engine was not run on it; when its evaluation fails, the widget shows
\* the literal of that failure.
ExpressionFailuresRecovered ==
    PassedInLivePreview =>
        \A n \in VisibleQueries :
            (/\ startsWith(sliceString(doc, n.from, n.to), settings.inlineQueryPrefix)
             /\ ~FollowedByNewline(n)
             /\ ~Overlapped(n.from - 1, n.to + 1))
            => \E i \in ReplacesAt(decorations, n.from - 1, n.to + 1) :
                  /\ ~parseField(ExpressionOf(n)).successful
                     => /\ els[decorations[i].widget.el] = ParseFailure(ExpressionOf(n))
                        /\ Call("executeInline", Str(ExpressionOf(n))) \notin Range(log)
                  /\ (/\ parseField(ExpressionOf(n)).successful
                      /\ ~executeInline(ExpressionOf(n)).successful)
                     => els[decorations[i].widget.el] = ExecutionFailure(ExpressionOf(n))

\* the last handler built the widget of an expression that does not parse,
\* and the store also holds the widget of one whose evaluation failed
ExpressionFailuresWitness ==
    /\ PassedInLivePreview
    /\ Call("parseField", "!") \in Range(log)
    /\ \E i, j \in DOMAIN decorations :
          /\ i < j
          /\ els[decorations[i].widget.el] = ParseFailure(decorations[i].widget.sourceString)
          /\ els[decorations[j].widget.el] = ExecutionFailure(decorations[j].widget.sourceString)

\* the literal a widget shows when its script raises the error e
ScriptFailure(code, e) == "Dataview (for inline JS query '" \o Str(code) \o "'): " \o e

\* C10: the widget of a script query whose execution raises an error shows
\* the literal of that error once the execution is over, whether the script
\* ran at once or as a deferred computation.
ScriptErrorsShown ==
    \A i \in DOMAIN decorations :
        (/\ decorations[i].kind = "replace"
         /\ startsWith(sliceString(doc, decorations[i].from + 1, decorations[i].to - 1),
                       settings.inlineJsQueryPrefix)
         /\ evalThrows(decorations[i].widget.sourceString)
         /\ ~evalSyntaxError(decorations[i].widget.sourceString)
         /\ \A p \in pending : p.el # decorations[i].widget.el)
        => els[decorations[i].widget.el]
              = ScriptFailure(decorations[i].widget.sourceString, ThrownError)

\* the literal a widget shows when the form of its query is disabled
DisabledLiteral == "(disabled; enable in settings)"

\* the form of a query with this text is disabled in the settings
FormDisabled(text) ==
    \/ startsWith(text, settings.inlineQueryPrefix) /\ ~settings.enableInlineDataview
    \/ startsWith(text, settings.inlineJsQueryPrefix) /\ ~settings.enableInlineDataviewJs

\* the calls of the last handler to the named collaborators
CallsTo(fns) == {i \in DOMAIN log : log[i].call \in fns}

\* C11: the widget of a query shows the literal "(disabled; enable in
\* settings)" exactly when the form of the query is disabled; while the
\* expression form is disabled no handler calls the parser or the engine, while
\* the script form is disabled no handler evaluates a script; and after a pass
\* in live preview a disabled query that is to render has its Replace
\* decoration.
FeatureGate ==
    /\ \A i \in DOMAIN decorations :
          decorations[i].kind = "replace"
          => (els[decorations[i].widget.el] = DisabledLiteral
              <=> FormDisabled(sliceString(doc, decorations[i].from + 1,
                                           decorations[i].to - 1)))
    /\ ~settings.enableInlineDataview => CallsTo({"parseField", "executeInline"}) = {}
    /\ ~settings.enableInlineDataviewJs => CallsTo({"eval"}) = {}
    /\ PassedInLivePreview =>
          \A n \in VisibleQueries :
              (/\ FormDisabled(sliceString(doc, n.from, n.to))
               /\ ~FollowedByNewline(n)
               /\ ~Overlapped(n.from - 1, n.to + 1))
              => ReplacesAt(decorations, n.from - 1, n.to + 1) # {}

\* the last handler built the widget of a disabled query, and the store also
\* holds the widget of a query whose form is enabled
FeatureGateWitness ==
    /\ PassedInLivePreview
    /\ CallsTo({"createQueryWidget"}) # {}
    /\ \E i, j \in DOMAIN decorations :
          /\ decorations[i].kind = "replace" /\ decorations[j].kind = "replace"
          /\ els[decorations[i].widget.el] = DisabledLiteral
          /\ FormDisabled(sliceString(doc, decorations[i].from + 1, decorations[i].to - 1))
          /\ els[decorations[j].widget.el] # DisabledLiteral

\* the calls of the last handler that evaluate the code of the query in node n
EvaluationsOf(n) ==
    {i \in CallsTo({"parseField", "executeInline", "eval", "renderValue"}) :
        log[i].arg = Str(trim(substring(sliceString(doc, n.from, n.to),
                                        IF startsWith(sliceString(doc, n.from, n.to),
                                                      settings.inlineQueryPrefix)
                                        THEN Len(settings.inlineQueryPrefix)
                                        ELSE Len(settings.inlineJsQueryPrefix))))}

\* C12: after a pass in live preview, a visible inline query whose node is
\* followed by a newline has no Replace decoration over it, and the pass
\* has not evaluated its code.
UnterminatedGuard ==
    PassedInLivePreview =>
        \A n \in VisibleQueries :
            FollowedByNewline(n)
            => /\ ReplacesCovering(decorations, n.from, n.to) = {}
               /\ EvaluationsOf(n) = {}

\* C13: every Replace decoration of the store lies inside the document and
\* inside one line: it starts at or after offset 0, ends at or before the
\* length of the document, and there is no line break between its ends.
QuerySpanInside ==
    \A i \in DOMAIN decorations :
        decorations[i].kind = "replace"
        => /\ 0 <= decorations[i].from
           /\ decorations[i].to <= Len(doc)
           /\ \A k \in (decorations[i].from + 1)..Min(decorations[i].to, Len(doc)) :
                 doc[k] # NL

\* the raw text of the query span a decoration of the store replaces
RawText(r) == sliceString(doc, r.from + 1, r.to - 1)

\* C14: two query widgets of the store are eq exactly when the raw texts of
\* their query spans are equal.
WidgetEquality ==
    \A i, j \in DOMAIN decorations :
        (decorations[i].kind = "replace" /\ decorations[j].kind = "replace")
        => (eq(decorations[i].widget, decorations[j].widget)
            <=> RawText(decorations[i]) = RawText(decorations[j]))

\* the text of node n starts with the prefix p
HasPrefix(n, p) ==
    /\ n.to - n.from >= Len(p)
    /\ \A k \in 1..Len(p) : doc[n.from + k] = p[k]

\* the node n is inline code, is not formatting and has one of the prefixes
IsQueryNode(n) ==
    /\ "inline-code" \in n.props
    /\ "formatting" \notin n.props
    /\ HasPrefix(n, settings.inlineQueryPrefix) \/ HasPrefix(n, settings.inlineJsQueryPrefix)

\* some selection range and [from, to] have a point in common
Intersects(from, to) ==
    \E i \in DOMAIN selection : selection[i].from <= to /\ selection[i].to >= from

\* C15: for every syntax node of the document, queryRenderInfo answers
\* isQuery exactly when the node is inline code, is not formatting and its
\* text starts with one of the two prefixes, and render exactly when isQuery
\* holds and no selection range overlaps the widened span of the node.
Classifier ==
    \A n \in Range(syntaxTree(doc)) :
        /\ queryRenderInfo(TheView, n).isQuery <=> IsQueryNode(n)
        /\ queryRenderInfo(TheView, n).render
              <=> (IsQueryNode(n) /\ ~Intersects(n.from - 1, n.to + 1))

\* the document has a query that is to render, a query that the selection
\* keeps from rendering, and a cursor that stands right before a third node's
\* widened span or at the edge of one
ClassifierWitness ==
    /\ last.handler = "update"
    /\ \E n1, n2 \in Range(syntaxTree(doc)) :
          /\ queryRenderInfo(TheView, n1).render
          /\ queryRenderInfo(TheView, n2).isQuery
          /\ ~queryRenderInfo(TheView, n2).render
          /\ ~selectionAndRangeOverlap(selection, n2.from, n2.to)
    /\ \E n3 \in Range(syntaxTree(doc)) :
          "inline-code" \in n3.props /\ ~queryRenderInfo(TheView, n3).isQuery

\* the spans a caller may ask about: those of the document, widened by one
Spans ==
    {p \in (-1..(Len(doc) + 1)) \X (-1..(Len(doc) + 1)) : p[1] <= p[2]}

\* C16: selectionAndRangeOverlap answers true exactly when some selection
\* range r has r.from <= to and r.to >= from; a cursor that stands exactly at
\* from or at to overlaps, and with several ranges one that overlaps suffices.
OverlapPredicate ==
    \A p \in Spans :
        /\ selectionAndRangeOverlap(selection, p[1], p[2]) <=> Intersects(p[1], p[2])
        /\ \A i \in DOMAIN selection :
              (selection[i].from = selection[i].to
                 /\ selection[i].from \in {p[1], p[2]})
              => selectionAndRangeOverlap(selection, p[1], p[2])

\* a selection of two cursors after an update: the first one is away from
\* the node, the second one stands exactly at the node's end
OverlapPredicateWitness ==
    /\ last.handler = "update"
    /\ Len(selection) = 2
    /\ \E n \in Range(syntaxTree(doc)) :
          /\ n.from < n.to
          /\ selection[1].to < n.from
          /\ selection[2].from = n.to /\ selection[2].to = n.to
          /\ selectionAndRangeOverlap(selection, n.from, n.to)

\* the syntax nodes of the document that are no inline queries
NonQueryNodes ==
    {n \in Range(syntaxTree(doc)) : ~queryRenderInfo(TheView, n).isQuery}

\* C17: visiting a node that is not an inline query leaves the instance as
\* it was: the decoration store, the widgets' elements, the pending tasks
\* and the collaborator calls are the same after the callback as before it.
NonQueryNoOp ==
    \A n \in NonQueryNodes : enter(This, TheView, n) = This

\* a pass has left the Replace of a query in the store, and a node that is
\* no query (the closing tick) touches that Replace
NonQueryNoOpWitness ==
    /\ last.handler = "update"
    /\ PassedInLivePreview
    /\ \E n \in NonQueryNodes, i \in DOMAIN decorations :
          /\ decorations[i].kind = "replace"
          /\ decorations[i].to = n.from
          /\ n.from < n.to

\* the code createQueryWidget takes from the text of the query node n
CodeOf(n) ==
    LET text == sliceString(doc, n.from, n.to)
    IN IF startsWith(text, settings.inlineQueryPrefix)
       THEN trim(substring(text, Len(settings.inlineQueryPrefix)))
       ELSE trim(substring(text, Len(settings.inlineJsQueryPrefix)))

\* C18: after a pass in live preview that follows a document change, every
\* Replace decoration of the store lies on the widened span of a node that is
\* an inline query of the changed document, and its widget has the code of
\* that node's text: a decoration whose text the change has made another
\* query, or no query, is not kept with the widget it had.
TextChangeLifecycle ==
    (last.handler = "update" /\ last.u.docChanged /\ livepreview) =>
        \A i \in DOMAIN decorations :
            decorations[i].kind = "replace" =>
                \E n \in AllQueries :
                    /\ decorations[i].from = n.from - 1
                    /\ decorations[i].to = n.to + 1
                    /\ decorations[i].widget.sourceString = CodeOf(n)

\* the range [from, to] lies within the lines that some visible range touches
WithinVisibleLines(from, to) ==
    \E i \in DOMAIN visible :
        /\ lineAt(doc, visible[i].from).from <= from
        /\ to <= lineAt(doc, visible[i].to).to

\* C19: after every update that reports a changed viewport, alone or
\* together with a document change or a set selection, every decoration of
\* the store lies within the lines the visible ranges touch: no decoration
\* of a span that has left the viewport is still in the store.
VisibilityLifecycle ==
    (last.handler = "update" /\ last.u.viewportChanged) =>
        \A r \in Range(decorations) : WithinVisibleLines(r.from, r.to)

\* the store at the start of the pass of an update with the changes chg
\* holds a Replace decoration on the widened span of the node n
ConcealedAtStart(set, chg, n) ==
    \E r \in Range(mapSet(set, chg)) :
        r.kind = "replace" /\ r.from = n.from - 1 /\ r.to = n.to + 1

\* C20: in a pass of an update with docChanged or selectionSet, in live
\* preview, a query that has a Replace decoration on its widened span when
\* the pass starts and whose widened span the selection does not overlap
\* keeps a Replace decoration, and createQueryWidget is not called for it,
\* whatever else on its line is selected.
NoReevaluation ==
    [][(/\ last'.handler = "update"
        /\ last'.u.docChanged \/ last'.u.selectionSet
        /\ livepreview')
       => \A n \in QueriesOf(View(doc', selection', visible')) :
             (/\ ConcealedAtStart(decorations, last'.u.changes, n)
              /\ ~selectionAndRangeOverlap(selection', n.from - 1, n.to + 1))
             => /\ \E r \in Range(decorations') :
                      r.kind = "replace" /\ r.from = n.from - 1 /\ r.to = n.to + 1
                /\ Call("createQueryWidget", Str(sliceString(doc', n.from, n.to)))
                      \notin Range(log')]_vars

\* the inline query n lies inside the span of the field item it, or touches it
InsideField(n, it) ==
    /\ n.from - 1 <= it.ln.from + it.field.end
    /\ n.to + 1 >= it.ln.from + it.field.start

\* the store holds every styling mark of the field item it
FieldMarked(it) ==
    \A k \in Range(createFieldDecoratorSourceMode(TheView, it.ln, it.field)) :
        \E r \in Range(decorations) :
            r.kind = "mark" /\ r.from = k.from /\ r.to = k.to /\ r.class = k.class

\* C21: fields and queries are decorated independently of each other.  After
\* a pass with an active file, for a visible field and a visible inline
\* query inside it: in live preview the query, when no selection range
\* overlaps its widened span and no newline follows it, has its Replace
\* decoration whatever the store holds for the field; in source mode the
\* field has its styling marks whatever the store holds for the query.
IndependentChannels ==
    (AfterPass /\ activeFile) =>
        \A it \in VisibleFields, n \in VisibleQueries :
            InsideField(n, it) =>
                /\ (livepreview /\ ~FollowedByNewline(n) /\ ~Overlapped(n.from - 1, n.to + 1))
                   => ReplacesAt(decorations, n.from - 1, n.to + 1) # {}
                /\ ~livepreview => FieldMarked(it)

\* the range r is the Replace decoration of an inline query of the document
QueryReplace(r) ==
    /\ r.kind = "replace"
    /\ \E n \in AllQueries : r.from = n.from - 1 /\ r.to = n.to + 1

\* the store holds a decoration of the field item it: one that lies within
\* the field's span and is not the Replace decoration of an inline query
FieldDecorated(it) ==
    \E r \in Range(decorations) :
        /\ it.ln.from + it.field.start <= r.from
        /\ r.to <= it.ln.from + it.field.end
        /\ ~QueryReplace(r)

\* C22: after a pass in live preview with an active file, the store holds a
\* decoration for every field of a visible line whose span no selection
\* range overlaps.
FieldConceal ==
    (AfterPass /\ livepreview /\ activeFile) =>
        \A it \in VisibleFields :
            ~Overlapped(it.ln.from + it.field.start, it.ln.from + it.field.end)
            => FieldDecorated(it)

\* C23: in source mode the selection does not keep a field from being
\* styled.  After a pass in source mode with an active file, the store holds
\* the styling marks of every field of a visible line, whether or not a
\* selection range overlaps the field: the pass has added them or has left
\* them in the store.
SourceModeFields ==
    (AfterPass /\ ~livepreview /\ activeFile) =>
        \A it \in VisibleFields : FieldMarked(it)

\* the elements of the deferred computations that have just settled
SettledEls == {p.el : p \in pending \ pending'}

\* C24: when the deferred computation of an awaited script query settles,
\* the store is left as it is: no decoration is inserted, removed or moved,
\* and of the widgets in the store only the one of that query may get
\* another display content.
DeferredBypass ==
    [][last'.handler = "settle"
       => /\ decorations' = decorations
          /\ \A r \in Range(decorations) :
                (r.widget.el # 0 /\ r.widget.el \notin SettledEls)
                => els'[r.widget.el] = els[r.widget.el]]_vars

\* a deferred computation has settled with a result while the widget of its
\* query is in the store, and the widget shows the result
DeferredBypassWitness ==
    /\ last.handler = "settle"
    /\ \E r \in Range(decorations) :
          /\ r.kind = "replace" /\ r.widget.el # 0
          /\ els[r.widget.el] = renderValue("result of " \o Str(r.widget.sourceString))

\* the store holds a widget with one of the elements els
InStore(ids) == \E r \in Range(decorations) : r.widget.el \in ids

\* C25: when the deferred computation of an awaited script query settles
\* after the widget of the query has been taken out of the store, the
\* settlement does nothing: it makes no collaborator call, so it renders
\* nothing into the element and hands nothing to the component.
StaleContinuation ==
    [][(last'.handler = "settle" /\ ~InStore(SettledEls)) => log' = <<>>]_vars

\* the lines the visible ranges touch
VisibleLines ==
    {line(doc, n) : n \in UNION {lineAt(doc, visible[i].from).number
                                   .. lineAt(doc, visible[i].to).number :
                                 i \in DOMAIN visible}}

Place(r) == [from |-> r.from, to |-> r.to, class |-> r.class]

\* the marks the store holds within the line ln
MarksOnLine(ln) ==
    {Place(r) : r \in {k \in Range(decorations) :
                          k.kind = "mark" /\ ln.from <= k.from /\ k.to <= ln.to}}

\* the marks of the fields of the line ln
MarksOfFields(ln, fields) ==
    UNION {{Place(k) : k \in Range(createFieldDecoratorSourceMode(TheView, ln, fields[i]))} :
           i \in DOMAIN fields}

\* the last handler has run the field loop in source mode
PassedInSourceMode ==
    /\ ~livepreview
    /\ last.handler = "constructor" \/ AfterPass

\* C26: the full-line scan counts only on a line where the bracket scan
\* found nothing.  After a pass in source mode, the marks the store holds on
\* a visible line are those of the line's bracket fields when it has any,
\* else those of its full-line field when it has one, else none.
FullLineFallback ==
    PassedInSourceMode =>
        \A ln \in VisibleLines :
            MarksOnLine(ln)
               = MarksOfFields(ln, IF extractInlineFields(ln.text) # <<>>
                                   THEN extractInlineFields(ln.text)
                                   ELSE extractFullLineField(ln.text))

\* an update has run a pass in source mode over a line on which both scans
\* find a field, and the store holds marks on it
FullLineFallbackWitness ==
    /\ PassedInSourceMode /\ last.handler = "update"
    /\ \E ln \in VisibleLines :
          /\ extractInlineFields(ln.text) # <<>>
          /\ extractFullLineField(ln.text) # <<>>
          /\ MarksOnLine(ln) # {}

KeyClasses ==
    {"dataview source-mode-inline-field-key", "dataview source-mode-inline-field-key-hidden",
     "dataview source-mode-fullline-field-key"}

ValueClasses ==
    {"dataview source-mode-inline-field-value",
     "dataview source-mode-inline-field-standalone-value",
     "dataview source-mode-fullline-field-value"}

BracketClass == "dataview source-mode-inline-field-bracket"

ColonClasses ==
    {"dataview source-mode-inline-field-colon", "dataview source-mode-fullline-field-colon"}

\* the marks createFieldDecoratorSourceMode gives for the field item it
MarksOf(it) == Range(createFieldDecoratorSourceMode(TheView, it.ln, it.field))

\* the key and the value sub-spans of the field item it, as offsets of the
\* document
KeySpan(it) ==
    [from |-> it.ln.from + it.field.start + (IF it.field.wrapping = NoWrapping THEN 0 ELSE 1),
     to |-> it.ln.from + it.field.startValue - 2]
ValueSpan(it) ==
    [from |-> it.ln.from + it.field.startValue,
     to |-> it.ln.from + it.field.end - (IF it.field.wrapping = NoWrapping THEN 0 ELSE 1)]

MarkLayout ==
    \A it \in AllFields :
        IF it.field.wrapping # NoWrapping
        THEN /\ \A k1, k2 \in MarksOf(it) :
                   k1 # k2 => (k1.to <= k2.from \/ k2.to <= k1.from)
             /\ \A pos \in (it.ln.from + it.field.start) .. (it.ln.from + it.field.end - 1) :
                   \E k \in MarksOf(it) : k.from <= pos /\ pos < k.to
        ELSE /\ \A k \in MarksOf(it) : k.class # BracketClass
             /\ \E k \in MarksOf(it) : k.class \in KeyClasses
             /\ \A k \in MarksOf(it) :
                   /\ k.class \in KeyClasses => k.from = it.ln.from + it.field.start
                   /\ k.class \in ValueClasses => k.to = it.ln.from + it.field.end

\* an update has run a pass in source mode over a document with a
\* full-line field with a value and with bracket fields, and the store holds
\* the marks of each of them
MarkLayoutWitness ==
    /\ PassedInSourceMode /\ last.handler = "update"
    /\ \A it \in VisibleFields : FieldMarked(it)
    /\ \E it \in VisibleFields :
          /\ it.field.wrapping = NoWrapping
          /\ ValueSpan(it).from < ValueSpan(it).to
    /\ \E it \in VisibleFields :
          /\ it.field.wrapping = "("
          /\ KeySpan(it).from < KeySpan(it).to

\* the classes that say of a region that it is not to be shown
HiddenClasses == {"dataview source-mode-inline-field-key-hidden"}

\* C29: of a field wrapped in "(" the opening bracket, the key and the
\* colon are hidden and the value is classed as a standalone value; of a
\* field wrapped in "[" the key, the colon and the value are shown, each
\* with a class of its own.
RenderingByKind ==
    \A it \in AllFields :
        /\ it.field.wrapping = "("
           => \A k \in MarksOf(it) :
                 /\ k.to <= it.ln.from + it.field.startValue => k.class \in HiddenClasses
                 /\ k.class \in ValueClasses
                       => k.class = "dataview source-mode-inline-field-standalone-value"
        /\ it.field.wrapping = "["
           => \A k \in MarksOf(it) :
                 /\ k.class \notin HiddenClasses
                 /\ k.from = KeySpan(it).from /\ k.to = KeySpan(it).to
                       => k.class = "dataview source-mode-inline-field-key"
                 /\ k.from = KeySpan(it).to /\ k.to = ValueSpan(it).from
                       => k.class = "dataview source-mode-inline-field-colon"
                 /\ k.from = ValueSpan(it).from /\ k.to = ValueSpan(it).to
                       => k.class = "dataview source-mode-inline-field-value"

\* the collaborator calls createQueryWidget makes for the node n
CallsFor(n) == Range(createQueryWidget(This, TheView, n).m.log)

\* C30: of the queries the store holds a widget for, one whose text starts
\* with inlineJsQueryPrefix is evaluated as
\* a script and not handed to the expression parser; a query whose text
\* starts with inlineQueryPrefix only is parsed as an expression and not
\* evaluated as a script; this holds for every configuration of the two
\* prefixes, also when one begins with the other.
PrefixDispatch ==
    (settings.enableInlineDataview /\ settings.enableInlineDataviewJs) =>
        \A n \in {q \in AllQueries : ReplacesAt(decorations, q.from - 1, q.to + 1) # {}} :
            IF HasPrefix(n, settings.inlineJsQueryPrefix)
            THEN /\ \A c \in CallsFor(n) : c.call # "parseField"
                 /\ \E c \in CallsFor(n) : c.call = "eval"
            ELSE /\ \A c \in CallsFor(n) : c.call # "eval"
                 /\ \E c \in CallsFor(n) : c.call = "parseField"

\* C31: the selection changes only when the editor reports an update: no
\* pass, no widget construction and no widget event handler changes it.
SelectionReadOnly == [][selection' # selection => last'.handler = "update"]_vars

\* C32: in every reachable state the entries of the decoration store are
\* ordered by non-decreasing start offset.
SortedStore ==
    \A i, j \in DOMAIN decorations : i < j => decorations[i].from <= decorations[j].from

\* an update with selectionSet has built a query widget and put it into a
\* store that holds another decoration
SortedStoreWitness ==
    /\ last.handler = "update" /\ last.u.selectionSet
    /\ \E c \in Range(log) : c.call = "createQueryWidget"
    /\ Len(decorations) >= 2

\* the spans of the fields and the widened spans of the queries a pass over
\* the view v meets
FieldSpansOf(v) ==
    {<<it.ln.from + it.field.start, it.ln.from + it.field.end>> : it \in FieldsOf(v)}
QuerySpansOf(v) == {<<n.from - 1, n.to + 1>> : n \in QueriesOf(v)}

\* r is the decoration of the field or of the query with the span p: the
\* Replace decoration over the span, or a styling mark within a field's span
DecorationOf(v, p, r) ==
    \/ r.kind = "replace" /\ r.from = p[1] /\ r.to = p[2]
    \/ r.kind = "mark" /\ p \in FieldSpansOf(v) /\ p[1] <= r.from /\ r.to <= p[2]

\* a decoration without the identity of its element
Shown(r) == [r EXCEPT !.widget.el = 0]

\* C33: when a pass with a set selection in live preview removes the
\* decoration of a field or query that the selection overlaps, every
\* decoration of another field or query whose span no selection range
\* overlaps is still in the store after the pass.
RemovalFrame ==
    [][(last'.handler = "update" /\ last'.u.selectionSet /\ lpField') =>
        LET v == View(doc', selection', visible')
            spans == FieldSpansOf(v) \cup QuerySpansOf(v)
            hit(p) == selectionAndRangeOverlap(selection', p[1], p[2])
            revealed == {p \in spans : hit(p) /\ \E r \in Range(decorations) :
                                                     DecorationOf(v, p, r)}
        IN revealed # {} =>
              \A p \in spans : \A r \in Range(decorations) :
                  (~hit(p) /\ DecorationOf(v, p, r))
                      => \E r2 \in Range(decorations') : Shown(r2) = Shown(r)]_vars

\* the store as the editor shows it: its decorations without the identity
\* of their elements
ShownStore(set) == [i \in DOMAIN set |-> Shown(set[i])]

\* the store the incremental pass leaves when it starts from an empty store
Incremental(m, v) == updateTree([m EXCEPT !.decorations = <<>>], v).decorations

\* C34: with the index initialized and an active file, the store a
\* viewport-changed rebuild produces equals the store the incremental pass
\* produces from an empty store for the same document, selection and
\* visible ranges.
PathsAgree ==
    [][(/\ last'.handler = "update" /\ ViewportOnly(last'.u) /\ lpField'
        /\ initialized /\ activeFile)
           => ShownStore(decorations')
                 = ShownStore(Incremental(This, View(doc', selection', visible')))]_vars

\* C35: in every state in which the editor is in source mode, at
\* construction and after any update, the store holds no Replace decoration
\* of an inline query.
ConcealedOnlyInLivePreview ==
    ~lpField => \A r \in Range(decorations) : ~QueryReplace(r)

\* the Replace decoration r of the store as the update u finds it: mapped
\* through the changes of u, <<>> when the mapping drops it
Carried(r, u) == IF u.docChanged THEN mapRange(r, u.changes) ELSE <<r>>

\* the Replace decorations an update with docChanged or selectionSet is to
\* keep: those that still lie over the widened span of a query and that no
\* range of the new selection overlaps
ToKeep ==
    {i \in DOMAIN decorations :
        /\ decorations[i].kind = "replace"
        /\ \E r2 \in Range(Carried(decorations[i], last'.u)) :
              /\ <<r2.from, r2.to>>
                    \in QuerySpansOf(View(doc', selection', WholeDocument(doc')))
              /\ ~selectionAndRangeOverlap(selection', r2.from, r2.to)}

\* the decoration i of the store is in the store after the step, over its
\* mapped range and with its element
Kept(i) ==
    \E r2 \in Range(Carried(decorations[i], last'.u)), j \in DOMAIN decorations' :
        /\ Shown(decorations'[j]) = Shown(r2)
        /\ els'[decorations'[j].widget.el] = els[decorations[i].widget.el]

\* C36: an update in live preview with none of docChanged, selectionSet and
\* viewportChanged leaves the store as it is, and an update with docChanged
\* or selectionSet does not discard the store: the decoration of a query
\* that the new selection does not overlap stays, with its element.
UpdateFrame ==
    [][(last'.handler = "update" /\ last'.u.lp) =>
          /\ (~last'.u.docChanged /\ ~last'.u.selectionSet /\ ~last'.u.viewportChanged)
                => decorations' = decorations
          /\ (last'.u.docChanged \/ last'.u.selectionSet)
                => \A i \in ToKeep : Kept(i)]_vars

\* an update with docChanged has run a pass that built no widget and has
\* left the decoration of a query in the store
UpdateFrameWitness ==
    /\ last.handler = "update" /\ last.u.docChanged /\ last.u.lp
    /\ \A c \in Range(log) : c.call # "createQueryWidget"
    /\ \E r \in Range(decorations) :
          QueryReplace(r) /\ ~selectionAndRangeOverlap(selection, r.from, r.to)

\* C37: a pass that runs while there is no active file puts no decoration
\* into the store and calls no collaborator, and in live preview it leaves
\* no decoration on the span of a visible field or on the widened span of a
\* visible query that a selection range overlaps.
NoActiveFile ==
    [][(/\ last'.handler = "update"
        /\ last'.u.docChanged \/ last'.u.selectionSet \/ last'.u.viewportChanged
        /\ ~activeFile /\ ~activeFile') =>
          LET v == View(doc', selection', visible')
              hit(p) == selectionAndRangeOverlap(selection', p[1], p[2])
          IN /\ Range(ShownStore(decorations')) \subseteq Range(ShownStore(decorations))
             /\ log' = <<>>
             /\ livepreview' =>
                   \A p \in FieldSpansOf(v) \cup QuerySpansOf(v) :
                       hit(p) => between(decorations', p[1], p[2]) = <<>>]_vars

\* a pass without an active file has left a query that the selection
\* overlaps and a query that it does not overlap, both without a decoration
NoActiveFileWitness ==
    /\ ~activeFile /\ last.handler = "update" /\ last.u.selectionSet /\ livepreview
    /\ \E n \in VisibleQueries : Overlapped(n.from - 1, n.to + 1)
    /\ \E n \in VisibleQueries :
          /\ ~Overlapped(n.from - 1, n.to + 1)
          /\ between(decorations, n.from - 1, n.to + 1) = <<>>

=============================================================================
